---- MODULE Spec2Model ----
(***************************************************************************)
(* Verification orchestration of the citation checker (phulin/cider).      *)
(*                                                                         *)
(* Spec    : processDocument + verifyAllFootnotes + the per-claim runs     *)
(*           (verifyFootnote, quickVerifyFootnote), the module-level       *)
(*           currentContext / currentLinkupApiKey, the progress chain and  *)
(*           the writes to the results blob and the progress actor.        *)
(* SpecEF  : get_earlier_footnotes as a function of the footnote list,     *)
(*           the current position and the requested index.                 *)
(*                                                                         *)
(* One action is one macrotask of the JavaScript event loop: an I/O        *)
(* completion or a timer, followed by every promise continuation it        *)
(* triggers up to the next I/O wait.                                       *)
(***************************************************************************)
EXTENDS Integers, Sequences, FiniteSets, TLC

\* ------------------------------------------------------------------ bounds
\* largest number of footnotes of a document
MaxFootnotes == 2
\* largest number of tool invocations the model requests while one document is processed
MaxToolCalls == 1
\* largest number of primary runs whose timer fires while one document is processed
MaxTimeouts == 1
\* longest footnote list a get_earlier_footnotes lookup is tried on
MaxListLen == 3

\* web_search callers sharing one rate limiter
MaxSearchCallers == 2
\* clock advances while the limiter is observed
MaxTicks == 2
\* search responses handled while the limiter is observed
MaxResponses == 3

\* distinct documents read_pdf_page is asked for
MaxPdfUrls == 4
\* read_pdf_page calls running at once
MaxPdfCallers == 2
\* read_pdf_page calls made while the cache is observed
MaxPdfCalls == 4

\* tool calls dispatched one after the other
MaxToolRuns == 3

\* longest model response, in tokens, parseVerificationResponse is tried on
MaxTextLen == 4
\* most members of a JSON answer parseVerificationResponse is tried on
MaxMembers == 2
\* sockets attached to one progress actor
MaxSockets == 2
\* snapshots posted to one progress actor
MaxSets == 2
\* longest footnote list the worker pool is observed on
MaxSchedFootnotes == 6

\* --------------------------------------------------------- program constants
\* verify.ts:1055
concurrencyLimit == 5
\* verify/tools/earlier-footnotes.ts:29-30 (the rate limiter's defaults)
DEFAULT_BASE_DELAY_MS == 2000
DEFAULT_MAX_DELAY_MS == 30000
\* verify.ts:25, verify/tools/read-pdf-page.ts:5
PDF_CACHE_LIMIT == 3
\* verify.ts:772 (the cap on follow-up turns of one verifyFootnote run)
maxIterations == 4

Null == "null"
Undefined == "undefined"
LinkupKey == "linkup-key"
\* an optional value: absent, or present
None == <<>>
Some(v) == <<v>>

VARIABLES
    \* inputs of processDocument
    footnotes,            \* Footnote[] produced by ingestion
    hasGeminiKey,         \* env.GEMINI_API_KEY is set
    linkupApiKey,         \* env.LINKUP_API_KEY, or Undefined
    \* processDocument
    pdPc,                 \* position of processDocument
    inflight,             \* writeResults calls whose I/O has not settled
    blobStored,           \* documents/<id>/results.json
    actorStored,          \* snapshot held by the progress actor
    \* verifyAllFootnotes
    sortedFootnotes, results, nextIndex, active, resolved, output,
    chainQueue,           \* onProgress calls chained behind the running one
    progressCalls,        \* number of onProgress invocations so far
    lastProgress,         \* snapshot of the latest onProgress invocation
    \* per footnote position
    iife,                 \* position of the async wrapper of runNext
    vf,                   \* verifyFootnote execution
    qv,                   \* quickVerifyFootnote execution
    trace,                \* verifyFootnote.trace
    \* module-level state of verify.ts
    currentContext, currentLinkupApiKey,
    \* get_earlier_footnotes lookups (SpecEF)
    efPc, efContext, efIndex, efCount, efOut, efInlineOut

orchVars == <<footnotes, hasGeminiKey, linkupApiKey, pdPc, inflight, blobStored,
              actorStored, sortedFootnotes, results, nextIndex, active, resolved,
              output, chainQueue, progressCalls, lastProgress, iife, vf, qv, trace,
              currentContext, currentLinkupApiKey>>
efVars == <<efPc, efContext, efIndex, efCount, efOut, efInlineOut>>

VARIABLES
    \* WebSearchRateLimiter and the web_search calls that share it (SpecRL)
    rlNow,                \* Date.now()
    backoffMs, nextAllowedAt,
    rlCall,               \* per caller: the performWebSearch call it is in
    rlTicks, rlResponses  \* clock advances and search responses so far

rlVars == <<rlNow, backoffMs, nextAllowedAt, rlCall, rlTicks, rlResponses>>

VARIABLES
    \* the PDF byte cache and the read_pdf_page calls that share it (SpecPDF)
    pdfCache,             \* Map<string, ArrayBuffer> in insertion order
    pdfCall,              \* per caller: the readPdfPage call it is in
    pdfCalls              \* read_pdf_page calls so far

pdfVars == <<pdfCache, pdfCall, pdfCalls>>

VARIABLES
    \* the tool dispatcher (SpecTH)
    thCall,               \* the tool call being dispatched and its promise
    thRuns                \* tool calls dispatched so far

thVars == <<thCall, thRuns>>

VARIABLES
    \* parseVerificationResponse (SpecPV)
    pvText,               \* the response text
    pvId,                 \* the footnote id
    pvOut,                \* the Verification returned
    \* one verifyFootnote run in detail (SpecVF)
    vfRun,                \* the run: its position, locals and returned value
    \* the progress actor and its store (SpecPA)
    pa                    \* the slot, the row, the sessions and what they were sent

runVars == <<pvText, pvId, pvOut, vfRun, pa>>
toolVars == <<rlVars, pdfVars, thVars, runVars>>
\* what the rate limiter's operations leave alone
rlRest == <<orchVars, efVars, pdfVars, thVars, runVars>>
\* what read_pdf_page leaves alone
pdfRest == <<orchVars, efVars, rlVars, thVars, runVars>>
vars == <<orchVars, efVars, toolVars>>

\* ------------------------------------------------------------- ingestion
RECURSIVE BoolSeqs(_)
BoolSeqs(n) ==
    IF n = 0 THEN {<<>>}
    ELSE {Append(s, b) : s \in BoolSeqs(n - 1), b \in BOOLEAN}


\* marks[p] is isCustomMark of the p-th footnote reference of the document
extractFootnotesWithContext(marks) ==
    [p \in 1..Len(marks) |->
        LET numericIndex == 1 + Cardinality({q \in 1..(p - 1) : ~marks[q]})
        IN [index |-> IF marks[p] THEN 0 ELSE numericIndex,
            displayIndex |-> IF marks[p] THEN "*" ELSE ToString(numericIndex),
            order |-> Some(p)]]

\* the upload handler gives each parsed footnote its id
CreateFootnotes(parsed) ==
    [p \in 1..Len(parsed) |->
        [id |-> p, index |-> parsed[p].index,
         displayIndex |-> parsed[p].displayIndex, order |-> parsed[p].order]]


\* the lists of documents whose footnotes all carry automatic numbers
NumberedLists(n) ==
    {CreateFootnotes(extractFootnotesWithContext([p \in 1..k |-> FALSE])) : k \in 0..n}

\* ------------------------------------------------------ verifyAllFootnotes
\* a.order ?? a.index
OrderKey(f) == IF f.order # None THEN f.order[1] ELSE f.index

\* Array.prototype.sort is stable: the last element goes behind every element
\* of the sorted rest that is not larger
RECURSIVE SortByOrder(_)
SortByOrder(fs) ==
    IF fs = <<>> THEN <<>>
    ELSE LET f == fs[Len(fs)]
             s == SortByOrder(SubSeq(fs, 1, Len(fs) - 1))
             k == Cardinality({q \in 1..Len(s) : OrderKey(s[q]) <= OrderKey(f)})
         IN SubSeq(s, 1, k) \o <<f>> \o SubSeq(s, k + 1, Len(s))

N == Len(footnotes)
\* positions in sortedFootnotes, 0-based as in the code
Pos == 0..(N - 1)
FootnoteAt(i) == sortedFootnotes[i + 1]

\* ---------------------------------------------------------- Verifications
\* confidence is kept in hundredths
PrimaryVerification(id, tr) ==
    [footnoteId |-> id, verdict |-> "supports", confidence |-> 90,
     explanation |-> <<"model answer">>, sourceAccessed |-> TRUE, trace |-> Some(tr)]

QuickVerification(id) ==
    [footnoteId |-> id, verdict |-> "partially_supports", confidence |-> 60,
     explanation |-> <<"quick model answer">>, sourceAccessed |-> FALSE, trace |-> None]

QuickTimeoutMessage == "Quick verification timed out after 15000ms"
QuickThrowMessage == "model call failed"

\* FallbackPlaceholder reading the outer catch variable (error) where the code
\* reads fallbackError: the explanation carries the primary run's timeout
FallbackPlaceholderOuterError(id, message) ==
    [footnoteId |-> id, verdict |-> "source_unavailable", confidence |-> 0,
     explanation |-> <<"Verification error: ", "Verification timed out after 60000ms">>,
     sourceAccessed |-> FALSE, trace |-> None]

\* the object literal of the inner catch of runNext
FallbackPlaceholder(id, message) ==
    [footnoteId |-> id, verdict |-> "source_unavailable", confidence |-> 0,
     explanation |-> <<"Verification error: ", message>>,
     sourceAccessed |-> FALSE, trace |-> None]

\* results.filter(Boolean)
RECURSIVE FilterDefined(_, _)
FilterDefined(res, i) ==
    IF i >= N THEN <<>>
    ELSE (IF res[i] # None THEN <<res[i][1]>> ELSE <<>>) \o FilterDefined(res, i + 1)

Snapshot(res) == FilterDefined(res, 0)

\* ------------------------------------------------------------ writeResults
\* a writeResults call; only the call for the missing credential passes an error
Write(kind, status, verifications) ==
    [kind |-> kind, status |-> status, verifications |-> verifications,
     error |-> IF kind = "failed" THEN Some("GEMINI_API_KEY is not set") ELSE None]

Stored(w) ==
    Some([status |-> w.status, verifications |-> w.verifications, error |-> w.error])

\* processDocument without the test of env.GEMINI_API_KEY
FirstWriteUnchecked(hasKey) == Write("init", "processing", <<>>)
\* the first writeResults call of processDocument
FirstWrite(hasKey) ==
    IF ~hasKey THEN Write("failed", "failed", <<>>) ELSE Write("init", "processing", <<>>)

ProgressInFlight(infl) == {k \in DOMAIN infl : infl[k].kind = "progress"}


\* ----------------------------------------------------------------- runNext
\* The scheduler state the while loop of runNext works on.
Sched ==
    [nextIndex |-> nextIndex, active |-> active, iife |-> iife, vf |-> vf,
     context |-> currentContext, key |-> currentLinkupApiKey]

\* linkupApiKey || null
KeyOrNull == IF linkupApiKey = Undefined THEN Null ELSE linkupApiKey

\* runNext launching without looking at the pool: while (nextIndex < length)
RECURSIVE runNextUnbounded(_, _)
runNextUnbounded(s, n) ==
    IF s.nextIndex < n
    THEN LET current == s.nextIndex
         IN runNextUnbounded([nextIndex |-> current + 1,
                              active |-> s.active + 1,
                              iife |-> [s.iife EXCEPT ![current] = "primary"],
                              vf |-> [s.vf EXCEPT ![current] = "running"],
                              context |-> Some(current),
                              key |-> IF linkupApiKey = Undefined THEN Null ELSE linkupApiKey], n)
    ELSE s

\* One iteration of the loop body: the wrapper of footnote `current` starts and
\* verifyFootnote runs up to its first await, setting the module-level state.
RECURSIVE runNext(_, _)
runNext(s, n) ==
    IF s.active < concurrencyLimit /\ s.nextIndex < n
    THEN LET current == s.nextIndex
         IN runNext([nextIndex |-> current + 1,
                     active |-> s.active + 1,
                     iife |-> [s.iife EXCEPT ![current] = "primary"],
                     vf |-> [s.vf EXCEPT ![current] = "running"],
                     context |-> Some(current),
                     key |-> KeyOrNull], n)
    ELSE s

\* ------------------------------------------------------------ progressChain
\* ChainCanStart with onProgress called directly instead of through the chain
ChainCanStartUnchained(infl, queue) == TRUE

\* progressChain = progressChain.then(() => onProgress(snapshot)): the call starts
\* at once when every earlier call has settled, and waits behind them otherwise.
ChainCanStart(infl, queue) == ProgressInFlight(infl) = {} /\ queue = <<>>

\* ------------------------------------------------- completion of a wrapper
\* The wrapper of footnote i stores v, chains the progress call, and its
\* .finally either resolves verifyAllFootnotes (processDocument then issues the
\* complete write) or calls runNext. s0 is the scheduler state left by the
\* code that ran before the wrapper continued.
\* StoreResult writing through the shared counter nextIndex where the code
\* writes through the captured constant current
StoreResultSharedIndex(res, i, v) == [res EXCEPT ![nextIndex - 1] = Some(v)]

\* StoreResult appending in completion order (results.push) where the code
\* writes the slot of the footnote
StoreResultPush(res, i, v) ==
    LET free == {p \in DOMAIN res : res[p] = None}
    IN [res EXCEPT ![CHOOSE p \in free : \A q \in free : p <= q] = Some(v)]

StoreResult(res, i, v) == [res EXCEPT ![i] = Some(v)]

Completed(i, v, exit, s0) ==
    LET res1 == StoreResult(results, i, v)
        snapshot == Snapshot(res1)
        startNow == ChainCanStart(inflight, chainQueue)
        infl1 == IF startNow
                 THEN Append(inflight, Write("progress", "processing", snapshot))
                 ELSE inflight
        s1 == [s0 EXCEPT !.active = s0.active - 1, !.iife[i] = exit]
        allDone == s1.nextIndex >= N /\ s1.active = 0
        s2 == IF allDone THEN s1 ELSE runNext(s1, N)
    IN /\ results' = res1
       /\ chainQueue' = IF startNow THEN chainQueue ELSE Append(chainQueue, snapshot)
       /\ progressCalls' = IF startNow THEN progressCalls + 1 ELSE progressCalls
       /\ lastProgress' = IF startNow THEN snapshot ELSE lastProgress
       /\ nextIndex' = s2.nextIndex
       /\ active' = s2.active
       /\ iife' = s2.iife
       /\ vf' = s2.vf
       /\ currentContext' = s2.context
       /\ currentLinkupApiKey' = s2.key
       /\ resolved' = allDone
       /\ output' = IF allDone THEN Snapshot(res1) ELSE output
       /\ pdPc' = IF allDone THEN "final" ELSE pdPc
       /\ inflight' = IF allDone
                      THEN Append(infl1, Write("final", "complete", Snapshot(res1)))
                      ELSE infl1

\* --------------------------------------------------------- tool dispatcher

\* What handleToolCall reads from the module-level state and hands back to the
\* run: getEarlierFootnotes reads currentContext, performWebSearch reads
\* currentLinkupApiKey. context is -1 and key is "-" where the tool reads neither.
handleToolCall(tool) ==
    IF tool = "get_earlier_footnotes"
    THEN IF currentContext = None
         THEN [tool |-> tool, output |-> "No document context available.",
               context |-> -1, key |-> "-"]
         ELSE [tool |-> tool, output |-> "footnotes of context",
               context |-> currentContext[1], key |-> "-"]
    ELSE IF currentLinkupApiKey = Null
         THEN [tool |-> tool, output |-> "Search unavailable: LINKUP_API_KEY is not set.",
               context |-> -1, key |-> Null]
         ELSE [tool |-> tool, output |-> "search results",
               context |-> -1, key |-> currentLinkupApiKey]

\* ------------------------------------------------------------------- Init
EFIdle ==
    /\ efPc = "idle"
    /\ efContext = None
    /\ efIndex = 0
    /\ efCount = 0
    /\ efOut = None
    /\ efInlineOut = None

\* the rate limiter as constructed, no web_search call made
RLIdle ==
    /\ rlNow = 0
    /\ backoffMs = 0
    /\ nextAllowedAt = 0
    /\ rlCall = <<>>
    /\ rlTicks = 0
    /\ rlResponses = 0

\* the PDF cache as created, no read_pdf_page call made
PDFIdle ==
    /\ pdfCache = <<>>
    /\ pdfCall = <<>>
    /\ pdfCalls = 0

\* no tool call dispatched
THIdle ==
    /\ thCall = None
    /\ thRuns = 0

\* the actor as constructed: nothing stored, no session
PAIdle ==
    [useSql |-> FALSE, kv |-> None, sql |-> None, payload |-> None, returned |-> None,
     sessions |-> {}, attached |-> {}, threw |-> {}, sets |-> 0, response |-> "none",
     pending |-> {},
     inbox |-> [ws \in 1..MaxSockets |-> [count |-> 0, last |-> None]]]

\* parseVerificationResponse and verifyFootnote not called
RunsIdle ==
    /\ pvText = <<>>
    /\ pvId = 0
    /\ pvOut = None
    /\ vfRun = None
    /\ pa = PAIdle

ToolsIdle == RLIdle /\ PDFIdle /\ THIdle /\ RunsIdle

Init ==
    /\ footnotes \in NumberedLists(MaxFootnotes)
    /\ hasGeminiKey \in BOOLEAN
    /\ linkupApiKey = LinkupKey
    /\ pdPc = "start"
    /\ inflight = <<>>
    /\ blobStored = None
    /\ actorStored = None
    /\ sortedFootnotes = <<>>
    /\ results = [i \in Pos |-> None]
    /\ nextIndex = 0
    /\ active = 0
    /\ resolved = FALSE
    /\ output = <<>>
    /\ chainQueue = <<>>
    /\ progressCalls = 0
    /\ lastProgress = <<>>
    /\ iife = [i \in Pos |-> "idle"]
    /\ vf = [i \in Pos |-> "none"]
    /\ qv = [i \in Pos |-> "none"]
    /\ trace = [i \in Pos |-> <<>>]
    /\ currentContext = None
    /\ currentLinkupApiKey = Null
    /\ EFIdle
    /\ ToolsIdle

\* --------------------------------------------------------- processDocument
\* processDocument up to its first await: the failed write when the model
\* credential is missing, the initial processing write otherwise.
ProcessDocumentStart ==
    /\ pdPc = "start"
    /\ inflight' = <<FirstWrite(hasGeminiKey)>>
    /\ pdPc' = IF FirstWrite(hasGeminiKey).kind = "failed" THEN "failing" ELSE "init"
    /\ UNCHANGED <<footnotes, hasGeminiKey, linkupApiKey, blobStored, actorStored,
                   sortedFootnotes, results, nextIndex, active, resolved, output,
                   chainQueue, progressCalls, lastProgress, iife, vf, qv, trace,
                   currentContext, currentLinkupApiKey, efVars, toolVars>>

\* verifyAllFootnotes up to the first await of its runs
VerifyAllFootnotesBegins(infl) ==
    LET s == runNext(Sched, N)
    IN /\ sortedFootnotes' = SortByOrder(footnotes)
       /\ results' = [i \in Pos |-> None]
       /\ nextIndex' = s.nextIndex
       /\ active' = s.active
       /\ iife' = s.iife
       /\ vf' = s.vf
       /\ currentContext' = s.context
       /\ currentLinkupApiKey' = s.key
       /\ pdPc' = "verifying"
       /\ inflight' = infl
       /\ UNCHANGED <<resolved, output, chainQueue, progressCalls, lastProgress>>

\* the progress call in flight settled: the next chained call starts
ProgressChainContinues(infl) ==
    /\ IF chainQueue # <<>>
       THEN /\ inflight' = Append(infl, Write("progress", "processing", Head(chainQueue)))
            /\ chainQueue' = Tail(chainQueue)
            /\ progressCalls' = progressCalls + 1
            /\ lastProgress' = Head(chainQueue)
       ELSE /\ inflight' = infl
            /\ UNCHANGED <<chainQueue, progressCalls, lastProgress>>
    /\ UNCHANGED <<sortedFootnotes, results, nextIndex, active, iife, vf,
                   currentContext, currentLinkupApiKey, pdPc, resolved, output>>

\* The requests of writeResults call k (env.BUCKET.put and the POST of
\* notifyProgress, awaited together by Promise.all) complete: the blob and the
\* progress actor hold its snapshot, and the awaiting code continues. Calls in
\* flight at the same time complete in any order.
WriteResultsCompletes(k) ==
    /\ k \in DOMAIN inflight
    /\ blobStored' = Stored(inflight[k])
    /\ actorStored' = Stored(inflight[k])
    /\ LET w == inflight[k]
           rest == SubSeq(inflight, 1, k - 1) \o SubSeq(inflight, k + 1, Len(inflight))
       IN CASE w.kind = "init" -> VerifyAllFootnotesBegins(rest)
            [] w.kind = "progress" -> ProgressChainContinues(rest)
            [] OTHER ->
                  /\ inflight' = rest
                  /\ pdPc' = "done"
                  /\ UNCHANGED <<sortedFootnotes, results, nextIndex, active, iife,
                                 vf, currentContext, currentLinkupApiKey, resolved,
                                 output, chainQueue, progressCalls, lastProgress>>
    /\ UNCHANGED <<footnotes, hasGeminiKey, linkupApiKey, qv, trace, efVars, toolVars>>

\* ------------------------------------------------------------ verifyFootnote
procVars == <<footnotes, hasGeminiKey, linkupApiKey, blobStored, actorStored,
              sortedFootnotes, efVars, toolVars>>

TimedOut(i) == iife[i] \in {"quick", "done_quick", "done_quick_threw", "done_quick_timeout"}
TimeoutsFired == Cardinality({i \in Pos : TimedOut(i)})

\* The model answers with function calls: the run executes one through
\* handleToolCall and records it in its trace. An abandoned run goes on as well.
ToolCallRuns(i, tool) ==
    /\ i \in Pos
    /\ vf[i] = "running"
    /\ LET RECURSIVE SumLen(_, _)
           SumLen(tr, k) == IF k >= N THEN 0 ELSE Len(tr[k]) + SumLen(tr, k + 1)
       IN SumLen(trace, 0) < MaxToolCalls
    /\ trace' = [trace EXCEPT ![i] = Append(@, handleToolCall(tool))]
    /\ UNCHANGED <<procVars, pdPc, inflight, results, nextIndex, active, resolved,
                   output, chainQueue, progressCalls, lastProgress, iife, vf, qv,
                   currentContext, currentLinkupApiKey>>

\* VerifyFootnoteReturns with a withTimeout that hands a late value on: the
\* wrapper's slot takes the primary Verification after the timeout as well
VerifyFootnoteReturnsLate(i) ==
    /\ i \in Pos
    /\ vf[i] = "running"
    /\ LET s0 == [Sched EXCEPT !.vf[i] = "returned", !.context = None, !.key = Null]
       IN IF iife[i] = "primary"
          THEN Completed(i, PrimaryVerification(FootnoteAt(i).id, trace[i]),
                         "done_primary", s0)
          ELSE /\ vf' = s0.vf
               /\ currentContext' = s0.context
               /\ currentLinkupApiKey' = s0.key
               /\ results' = StoreResult(results, i,
                                         PrimaryVerification(FootnoteAt(i).id, trace[i]))
               /\ UNCHANGED <<pdPc, inflight, nextIndex, active, resolved,
                              output, chainQueue, progressCalls, lastProgress, iife>>
    /\ UNCHANGED <<procVars, qv, trace>>

\* The model gives its final answer: verifyFootnote returns its Verification.
\* When the wrapper still awaits it, withTimeout resolves and the wrapper
\* completes; after a timeout the value is dropped. The finally block clears
\* the module-level context and key.
VerifyFootnoteReturns(i) ==
    /\ i \in Pos
    /\ vf[i] = "running"
    /\ LET s0 == [Sched EXCEPT !.vf[i] = "returned", !.context = None, !.key = Null]
       IN IF iife[i] = "primary"
          THEN Completed(i, PrimaryVerification(FootnoteAt(i).id, trace[i]),
                         "done_primary", s0)
          ELSE /\ vf' = s0.vf
               /\ currentContext' = s0.context
               /\ currentLinkupApiKey' = s0.key
               /\ UNCHANGED <<pdPc, inflight, results, nextIndex, active, resolved,
                              output, chainQueue, progressCalls, lastProgress, iife>>
    /\ UNCHANGED <<procVars, qv, trace>>

\* The timer of withTimeout(verifyFootnote(...), timeoutMs) fires: the wrapper
\* catches the rejection and calls quickVerifyFootnote, which runs up to its
\* model call.
PrimaryTimesOut(i) ==
    /\ i \in Pos
    /\ iife[i] = "primary"
    /\ TimeoutsFired < MaxTimeouts
    /\ iife' = [iife EXCEPT ![i] = "quick"]
    /\ qv' = [qv EXCEPT ![i] = "running"]
    /\ currentLinkupApiKey' = KeyOrNull
    /\ UNCHANGED <<procVars, pdPc, inflight, results, nextIndex, active, resolved,
                   output, chainQueue, progressCalls, lastProgress, vf, trace, currentContext>>

\* ------------------------------------------------------- quickVerifyFootnote

\* the finally block of quickVerifyFootnote

\* The model call of quickVerifyFootnote settles. When the wrapper still awaits
\* it, the wrapper stores the fallback (or the placeholder of its inner catch).
QuickVerifySettles(i, outcome) ==
    /\ i \in Pos
    /\ qv[i] = "running"
    /\ qv' = [qv EXCEPT ![i] = "settled"]
    /\ LET s0 == [Sched EXCEPT !.key = Null]
       IN IF iife[i] = "quick"
          THEN Completed(i, IF outcome = "answer"
                            THEN QuickVerification(FootnoteAt(i).id)
                            ELSE FallbackPlaceholder(FootnoteAt(i).id, QuickThrowMessage),
                         IF outcome = "throw" THEN "done_quick_threw" ELSE "done_quick",
                         s0)
          ELSE /\ currentLinkupApiKey' = s0.key
               /\ UNCHANGED <<pdPc, inflight, results, nextIndex, active, resolved,
                              output, chainQueue, progressCalls, lastProgress, iife, vf,
                              currentContext>>
    /\ UNCHANGED <<procVars, trace>>

\* The 15000 ms timer of the quick pass fires: the inner catch stores the
\* placeholder; quickVerifyFootnote itself goes on in the background.
QuickTimesOut(i) ==
    /\ i \in Pos
    /\ iife[i] = "quick"
    /\ Completed(i, FallbackPlaceholder(FootnoteAt(i).id, QuickTimeoutMessage),
                 "done_quick_timeout", Sched)
    /\ UNCHANGED <<procVars, qv, trace>>

Next ==
    \/ ProcessDocumentStart
    \/ \E k \in 1..2 : WriteResultsCompletes(k)
    \/ \E i \in 0..(MaxFootnotes - 1), tool \in {"get_earlier_footnotes", "web_search"} : ToolCallRuns(i, tool)
    \/ \E i \in 0..(MaxFootnotes - 1) : VerifyFootnoteReturns(i)
    \/ \E i \in 0..(MaxFootnotes - 1) : PrimaryTimesOut(i)
    \/ \E i \in 0..(MaxFootnotes - 1), outcome \in {"answer", "throw"} : QuickVerifySettles(i, outcome)
    \/ \E i \in 0..(MaxFootnotes - 1) : QuickTimesOut(i)

Spec == Init /\ [][Next]_vars

\* processDocument in an environment whose timers fire: a timer that is set
\* and not cleared runs its callback. Nothing is assumed of the model calls,
\* the tool calls, the writes or the onProgress callback.
SpecLive ==
    /\ Spec
    /\ \A i \in 0..(MaxFootnotes - 1) :
          WF_vars(PrimaryTimesOut(i)) /\ WF_vars(QuickTimesOut(i))


\* --------------------------------------------------- get_earlier_footnotes
\* A tool output: the positions (0-based, in allFootnotes) of the footnotes whose
\* text it carries, and the message it consists of otherwise.
\* Strings are sequences of tokens; a template literal concatenates them.
\* footnote.claim and footnote.citation: the texts ingestion stored for the footnote
ClaimOf(f) == <<"claim", "of", ToString(f.id)>>
CitationOf(f) == <<"citation", "of", ToString(f.id)>>

\* a rendering that cuts the claim short
FormatFootnoteSliced(f) ==
    <<"**Footnote ", f.displayIndex, "**:\nClaim: ">> \o SubSeq(ClaimOf(f), 1, 2)
        \o <<"\nCitation: ">> \o CitationOf(f)

\* `**Footnote ${label}**:\nClaim: ${footnote.claim}\nCitation: ${footnote.citation}`
FormatFootnote(f) ==
    <<"**Footnote ", f.displayIndex, "**:\nClaim: ">> \o ClaimOf(f)
        \o <<"\nCitation: ">> \o CitationOf(f)

\* formatted.join("\n\n---\n\n") over the footnotes at the given positions
RECURSIVE JoinFormatted(_, _, _)
JoinFormatted(allFootnotes, positions, k) ==
    IF k > Len(positions) THEN <<>>
    ELSE (IF k > 1 THEN <<"\n\n---\n\n">> ELSE <<>>)
            \o FormatFootnote(allFootnotes[positions[k] + 1])
            \o JoinFormatted(allFootnotes, positions, k + 1)

\* the string returned for one footnote found by its index
FootnoteText(allFootnotes, positions) ==
    [kind |-> "footnotes", positions |-> positions,
     text |-> FormatFootnote(allFootnotes[positions[1] + 1])]
Message(text) == [kind |-> "message", text |-> <<text>>, positions |-> <<>>]

\* allFootnotes.find((f) => f.index === specificIndex), as a 0-based position or -1
FindByIndex(allFootnotes, specificIndex) ==
    LET hits == {p \in 1..Len(allFootnotes) : allFootnotes[p].index = specificIndex}
    IN IF hits = {} THEN -1
       ELSE (CHOOSE p \in hits : \A q \in hits : p <= q) - 1

\* verify/tools/earlier-footnotes.ts
getEarlierFootnotes(context, specificIndex) ==
    IF context = None THEN Message("No document context available.")
    ELSE IF specificIndex = None THEN Message("Specify a footnote index to retrieve.")
    ELSE IF specificIndex[1] > context[1].currentIndex + 1
         THEN Message("Footnote is not earlier than the current footnote.")
    ELSE LET found == FindByIndex(context[1].allFootnotes, specificIndex[1])
         IN IF found >= 0 THEN FootnoteText(context[1].allFootnotes, <<found>>)
            ELSE Message("Footnote not found.")

Max(a, b) == IF a >= b THEN a ELSE b

\* getEarlierFootnotes of verify.ts, reading the module-level context
getEarlierFootnotesInline(context, count, specificIndex) ==
    IF context = None THEN Message("No document context available.")
    ELSE IF specificIndex # None
         THEN LET found == FindByIndex(context[1].allFootnotes, specificIndex[1])
              IN IF found >= 0 THEN FootnoteText(context[1].allFootnotes, <<found>>)
                 ELSE Message("Footnote not found.")
    ELSE LET startIdx == Max(0, context[1].currentIndex - count)
             previous == [p \in 1..Max(0, context[1].currentIndex - startIdx) |->
                             startIdx + p - 1]
         IN IF previous = <<>>
            THEN Message("No earlier footnotes available (this is the first footnote).")
            ELSE [kind |-> "footnotes", positions |-> previous,
                  text |-> <<"Earlier footnotes (", ToString(Len(previous)),
                             " retrieved):\n\n">>
                              \o JoinFormatted(context[1].allFootnotes, previous, 1)]

\* the context verifyAllFootnotes builds for the footnote at position current
VerificationContext(list, current) ==
    Some([allFootnotes |-> SortByOrder(list), currentIndex |-> current])

OrchIdle ==
    /\ footnotes = <<>>
    /\ hasGeminiKey = TRUE
    /\ linkupApiKey = LinkupKey
    /\ pdPc = "start"
    /\ inflight = <<>>
    /\ blobStored = None
    /\ actorStored = None
    /\ sortedFootnotes = <<>>
    /\ results = <<>>
    /\ nextIndex = 0
    /\ active = 0
    /\ resolved = FALSE
    /\ output = <<>>
    /\ chainQueue = <<>>
    /\ progressCalls = 0
    /\ lastProgress = <<>>
    /\ iife = <<>>
    /\ vf = <<>>
    /\ qv = <<>>
    /\ trace = <<>>
    /\ currentContext = None
    /\ currentLinkupApiKey = Null

InitEF ==
    /\ OrchIdle
    /\ ToolsIdle
    /\ efPc = "ready"
    /\ efContext \in
          LET IngestedLists == {CreateFootnotes(extractFootnotesWithContext(m)) :
                                   m \in UNION {BoolSeqs(k) : k \in 0..MaxListLen}}
          IN {c \in {None} \cup {VerificationContext(l, k) :
                                     l \in IngestedLists, k \in 0..(MaxListLen - 1)} :
                 c = None \/ c[1].currentIndex < Len(c[1].allFootnotes)}
    /\ efIndex = None
    /\ efCount = 0
    /\ efOut = None
    /\ efInlineOut = None

\* The model requests get_earlier_footnotes: the dispatcher hands specific_index
\* (and, in verify.ts, count || 1) to the lookup.
EarlierFootnotesLookup(count, specificIndex) ==
    /\ efPc \in {"ready", "looked"}
    /\ efPc' = "looked"
    /\ efIndex' = specificIndex
    /\ efCount' = count
    /\ efOut' = Some(getEarlierFootnotes(efContext, specificIndex))
    /\ efInlineOut' =
          Some(getEarlierFootnotesInline(efContext, IF count = 0 THEN 1 ELSE count,
                                         specificIndex))
    /\ UNCHANGED <<efContext, orchVars, toolVars>>

NextEF ==
    \E count \in 0..MaxListLen,
       specificIndex \in {None} \cup {Some(k) : k \in (-1)..(MaxListLen + 1)} :
        EarlierFootnotesLookup(count, specificIndex)

SpecEF == InitEF /\ [][NextEF]_vars


\* ---------------------------------------------------- WebSearchRateLimiter
Min(a, b) == IF a <= b THEN a ELSE b

\* The retry-after header of a 429 response: absent, a number of seconds
\* (parseInt succeeds), an HTTP date (Date.parse succeeds), or neither.
NoHeader == [kind |-> "none", n |-> 0]
SecondsHeader(n) == [kind |-> "seconds", n |-> n]

\* parseRetryAfterMs(value) at the time now; None is null
parseRetryAfterMs(value, now) ==
    CASE value.kind = "none" -> None
      [] value.kind = "seconds" -> Some(Max(0, value.n * 1000))
      [] value.kind = "date" -> Some(IF value.n - now > 0 THEN value.n - now ELSE 0)
      [] OTHER -> None

\* doubling that ignores DEFAULT_MAX_DELAY_MS
DoubledBackoffUncapped(b) == b * 2
\* Math.min(this.DEFAULT_MAX_DELAY_MS, this.backoffMs * 2)
DoubledBackoff(b) == Min(DEFAULT_MAX_DELAY_MS, b * 2)

\* the retry-after delay replacing the current backoff
RetryAfterBackoffReplacing(b, retryAfterMs) == Min(DEFAULT_MAX_DELAY_MS, retryAfterMs)
\* Math.min(this.DEFAULT_MAX_DELAY_MS, Math.max(this.backoffMs, retryAfterMs))
RetryAfterBackoff(b, retryAfterMs) == Min(DEFAULT_MAX_DELAY_MS, Max(b, retryAfterMs))

\* on429(retryAfterHeader) on the limiter state l at the time now
on429(l, retryAfterHeader, now) ==
    LET retryAfterMs == parseRetryAfterMs(retryAfterHeader, now)
        b == IF retryAfterMs # None /\ retryAfterMs[1] > 0
                THEN RetryAfterBackoff(l.backoffMs, retryAfterMs[1])
             ELSE IF l.backoffMs > 0 THEN DoubledBackoff(l.backoffMs)
             ELSE DEFAULT_BASE_DELAY_MS
    IN [backoffMs |-> b, nextAllowedAt |-> now + b]

\* halving that rounds up
HalvedBackoffCeil(b) == (b + 1) \div 2
\* Math.floor(this.backoffMs * 0.5)
HalvedBackoff(b) == b \div 2

\* onSuccess() on the limiter state l at the time now
onSuccess(l, now) ==
    IF l.backoffMs <= 0 THEN l
    ELSE [backoffMs |-> HalvedBackoff(l.backoffMs),
          nextAllowedAt |-> now + HalvedBackoff(l.backoffMs)]

Limiter == [backoffMs |-> backoffMs, nextAllowedAt |-> nextAllowedAt]

\* wait(): the time slept, 0 when now >= nextAllowedAt
SleepMs(now, allowedAt) == IF now < allowedAt THEN allowedAt - now ELSE 0

Callers == 1..MaxSearchCallers
IdleCall == [pc |-> "idle", calledAt |-> 0, sleepMs |-> 0, resumedAt |-> 0,
             allowedAtResume |-> 0]

\* performWebSearch up to its first suspension: rateLimiter.wait() sleeps, or
\* returns at once and the request is sent
WebSearchCalled(c) ==
    /\ rlCall[c].pc = "idle"
    /\ rlResponses + Cardinality({d \in Callers : rlCall[d].pc # "idle"}) < MaxResponses
    /\ LET ms == SleepMs(rlNow, nextAllowedAt)
       IN rlCall' = [rlCall EXCEPT ![c] =
             IF ms > 0
             THEN [pc |-> "sleeping", calledAt |-> rlNow, sleepMs |-> ms,
                   resumedAt |-> 0, allowedAtResume |-> 0]
             ELSE [pc |-> "fetching", calledAt |-> rlNow, sleepMs |-> 0,
                   resumedAt |-> rlNow, allowedAtResume |-> nextAllowedAt]]
    /\ UNCHANGED <<rlNow, backoffMs, nextAllowedAt, rlTicks, rlResponses, rlRest>>

\* the timer of sleep() fires, at its due time or later: wait() returns and the
\* request is sent
SleepEnds(c) ==
    /\ rlCall[c].pc = "sleeping"
    /\ rlNow >= rlCall[c].calledAt + rlCall[c].sleepMs
    /\ rlCall' = [rlCall EXCEPT ![c].pc = "fetching", ![c].resumedAt = rlNow,
                                ![c].allowedAtResume = nextAllowedAt]
    /\ UNCHANGED <<rlNow, backoffMs, nextAllowedAt, rlTicks, rlResponses, rlRest>>

RetryAfterHeaders ==
    {NoHeader, [kind |-> "garbage", n |-> 0], SecondsHeader(-3), SecondsHeader(0), SecondsHeader(5),
     SecondsHeader(60), [kind |-> "date", n |-> rlNow + 3000],
     [kind |-> "date", n |-> rlNow - 1000]}

\* the search request settles: on429 for a 429 response, onSuccess for a 2xx
\* response, the limiter untouched for another status or a network error
SearchResponds(c, outcome, header) ==
    /\ rlCall[c].pc = "fetching"
    /\ outcome # "429" => header = NoHeader
    /\ rlCall' = [rlCall EXCEPT ![c] = IdleCall]
    /\ rlResponses' = rlResponses + 1
    /\ LET l == CASE outcome = "429" -> on429(Limiter, header, rlNow)
                  [] outcome = "ok" -> onSuccess(Limiter, rlNow)
                  [] OTHER -> Limiter
       IN /\ backoffMs' = l.backoffMs
          /\ nextAllowedAt' = l.nextAllowedAt
    /\ UNCHANGED <<rlNow, rlTicks, rlRest>>

\* time passes
ClockAdvances(d) ==
    /\ rlTicks < MaxTicks
    /\ rlTicks' = rlTicks + 1
    /\ rlNow' = rlNow + d
    /\ UNCHANGED <<backoffMs, nextAllowedAt, rlCall, rlResponses, rlRest>>

InitRL ==
    /\ OrchIdle
    /\ EFIdle
    /\ PDFIdle
    /\ THIdle
    /\ RunsIdle
    /\ rlNow = 0
    /\ backoffMs = 0
    /\ nextAllowedAt = 0
    /\ rlCall = [c \in Callers |-> IdleCall]
    /\ rlTicks = 0
    /\ rlResponses = 0

NextRL ==
    \/ \E c \in Callers : WebSearchCalled(c)
    \/ \E c \in Callers : SleepEnds(c)
    \/ \E c \in Callers, outcome \in {"ok", "429", "500", "error"}, header \in RetryAfterHeaders :
          SearchResponds(c, outcome, header)
    \/ \E d \in {2000, 5000} : ClockAdvances(d)

SpecRL == InitRL /\ [][NextRL]_vars


\* ------------------------------------------------------------ read_pdf_page
\* a url argument: with or without its scheme
PdfUrls == [scheme : {"", "https://"}, rest : 1..MaxPdfUrls]
\* url.trim(), prefixed with https:// when it has no scheme
CleanUrl(url) == [scheme |-> "https://", rest |-> url.rest]

\* a lookup that never finds anything: pdfCache.get(key) always undefined
CacheKeysMissing(cache) == {}
CacheKeys(cache) == {cache[k].key : k \in DOMAIN cache}
\* eviction only when the cache is over its limit
EvictOldestWhenOver(cache) ==
    IF Len(cache) > PDF_CACHE_LIMIT THEN Tail(cache) ELSE cache
\* if (pdfCache.size >= PDF_CACHE_LIMIT) delete the first key of the map
EvictOldest(cache) ==
    IF Len(cache) >= PDF_CACHE_LIMIT THEN Tail(cache) ELSE cache

\* the tail of fetchPdfBytes once the body has arrived: the eviction, then
\* pdfCache.set(key, data), where a new key goes to the end and a present key
\* keeps its place
CacheInsert(cache, key, data) ==
    LET evicted == EvictOldest(cache)
    IN IF key \in CacheKeys(evicted)
       THEN [k \in DOMAIN evicted |->
                IF evicted[k].key = key THEN [key |-> key, data |-> data] ELSE evicted[k]]
       ELSE Append(evicted, [key |-> key, data |-> data])

\* the settled promise of a tool call
Resolved(text) == [settled |-> "resolved", text |-> text]
Rejected(text) == [settled |-> "rejected", text |-> text]
Pending == [settled |-> "pending", text |-> <<>>]

PdfCallers == 1..MaxPdfCallers
IdlePdfCall == [pc |-> "idle", key |-> 0]

\* pdfParse on the bytes: the page text, a page out of range, or a throw

\* readPdfPage(url, page) up to its first suspension: the page number check,
\* then fetchPdfBytes up to the cache lookup and the request
ReadPdfPageCalled(c, url, pageValid) ==
    /\ pdfCall[c].pc = "idle"
    /\ pdfCalls < MaxPdfCalls
    /\ pdfCalls' = pdfCalls + 1
    /\ pdfCall' = [pdfCall EXCEPT ![c] =
          IF ~pageValid THEN IdlePdfCall
          ELSE IF CleanUrl(url) \in CacheKeys(pdfCache) THEN [pc |-> "parsing", key |-> 0]
          ELSE [pc |-> "fetching", key |-> url.rest]]
    /\ UNCHANGED <<pdfCache, pdfRest>>


\* fetchWithTimeout settles: a message for a bad status or content type, the
\* body awaited for a PDF; a network error or an abort rejects, and the await
\* in readPdfPage is outside its try block
PdfFetchResponds(c, outcome) ==
    /\ pdfCall[c].pc = "fetching"
    /\ pdfCall' = [pdfCall EXCEPT ![c] =
          IF outcome = "pdf" THEN [@ EXCEPT !.pc = "body"] ELSE IdlePdfCall]
    /\ UNCHANGED <<pdfCache, pdfCalls, pdfRest>>

\* response.arrayBuffer() settles: the bytes are cached and handed to pdfParse
PdfBodyArrives(c) ==
    /\ pdfCall[c].pc = "body"
    /\ pdfCache' = CacheInsert(pdfCache, [scheme |-> "https://", rest |-> pdfCall[c].key],
                               pdfCall[c].key)
    /\ pdfCall' = [pdfCall EXCEPT ![c] = [pc |-> "parsing", key |-> 0]]
    /\ UNCHANGED <<pdfCalls, pdfRest>>

\* pdfParse settles, inside the try block of readPdfPage
PdfParsed(c, outcome) ==
    /\ pdfCall[c].pc = "parsing"
    /\ pdfCall' = [pdfCall EXCEPT ![c] = IdlePdfCall]
    /\ UNCHANGED <<pdfCache, pdfCalls, pdfRest>>

InitPDF ==
    /\ OrchIdle
    /\ EFIdle
    /\ RLIdle
    /\ THIdle
    /\ RunsIdle
    /\ pdfCache = <<>>
    /\ pdfCall = [c \in PdfCallers |-> IdlePdfCall]
    /\ pdfCalls = 0

NextPDF ==
    \/ \E c \in PdfCallers, url \in PdfUrls, pageValid \in BOOLEAN :
          ReadPdfPageCalled(c, url, pageValid)
    \/ \E c \in PdfCallers, outcome \in {"pdf", "401", "404", "500", "not_pdf", "network_error", "abort"} : PdfFetchResponds(c, outcome)
    \/ \E c \in PdfCallers : PdfBodyArrives(c)
    \/ \E c \in PdfCallers, outcome \in {"text", "out_of_range", "throws"} : PdfParsed(c, outcome)

SpecPDF == InitPDF /\ [][NextPDF]_vars


\* ---------------------------------------------------------- createToolHandler
\* key: the url of a read_pdf_page download, the time a web_search that had to
\* sleep was allowed at
Dispatched(name, pc, key, result) ==
    Some([name |-> name, pc |-> pc, key |-> key, result |-> result])
Settled(name, result) == Dispatched(name, "settled", 0, result)

\* The dispatcher is called: the switch of createToolHandler and the called
\* tool up to its first suspension. args holds a url (or none), whether the page
\* is a finite number >= 1, and a footnote index (or none); apiKey is what
\* getLinkupApiKey() returns.
ToolCalled(name, args, apiKey) ==
    /\ IF thCall = None THEN TRUE ELSE thCall[1].pc = "settled"
    /\ thRuns < MaxToolRuns
    /\ thRuns' = thRuns + 1
    /\ thCall' =
          CASE name = "web_search" ->
                 IF apiKey = Null
                 THEN Settled(name, Resolved(<<"Search unavailable: LINKUP_API_KEY is not set.">>))
                 ELSE IF SleepMs(rlNow, nextAllowedAt) > 0
                      THEN Dispatched(name, "sleeping", nextAllowedAt, Pending)
                      ELSE Dispatched(name, "fetching", 0, Pending)
            [] name = "read_url" ->
                 IF args.url = None
                 THEN Settled(name, Resolved(<<"Error fetching URL: ", "TypeError",
                                              ". Try searching for this source using web_search.">>))
                 ELSE Dispatched(name, "fetching", 0, Pending)
            [] name = "read_pdf_page" ->
                 IF ~args.pageValid
                 THEN Settled(name, Resolved(<<"Invalid page number. Provide a 1-based page number.">>))
                 ELSE IF args.url = None THEN Settled(name, Rejected(<<"TypeError">>))
                 ELSE IF CleanUrl(args.url[1]) \in CacheKeys(pdfCache)
                      THEN Dispatched(name, "parsing", 0, Pending)
                      ELSE Dispatched(name, "fetching", args.url[1].rest, Pending)
            [] name = "get_earlier_footnotes" ->
                 Settled(name, Resolved(getEarlierFootnotes(efContext, args.index).text))
            [] OTHER -> Settled(name, Resolved(<<"Unknown tool: ", name>>))
    /\ UNCHANGED <<runVars, orchVars, efVars, rlVars, pdfVars>>

\* the timer of the rate limiter's sleep fires
ToolSleepEnds ==
    /\ thCall # None
    /\ thCall[1].pc = "sleeping"
    /\ rlNow >= thCall[1].key
    /\ thCall' = Dispatched(thCall[1].name, "fetching", thCall[1].key, Pending)
    /\ UNCHANGED <<thRuns, runVars, orchVars, efVars, rlVars, pdfVars>>

\* what each tool returns for a response that is not ok, for the content type
\* it does not handle, and for a fetch that throws
ToolFetchFailed(name, outcome) ==
    CASE name = "web_search" ->
           IF outcome \in {"network_error", "abort"}
           THEN Resolved(<<"Search error: ", outcome, ". Try a simpler query.">>)
           ELSE Resolved(<<"Search failed with status ", outcome,
                           ". Try a different search query.">>)
      [] name = "read_url" ->
           CASE outcome \in {"network_error", "abort"} ->
                  Resolved(<<"Error fetching URL: ", outcome,
                             ". Try searching for this source using web_search.">>)
             [] outcome = "wrong_type" ->
                  Resolved(<<"PDF detected. Use read_pdf_page with the URL and a page number to extract text.">>)
             [] outcome = "401" ->
                  Resolved(<<"Access denied (HTTP 401). This may be a paywalled source.">>)
             [] outcome = "404" ->
                  Resolved(<<"Page not found (HTTP 404). The URL may be outdated.">>)
             [] OTHER -> Resolved(<<"Failed to fetch URL: HTTP ", outcome, ".">>)
      [] OTHER ->
           CASE outcome \in {"network_error", "abort"} -> Rejected(<<outcome>>)
             [] outcome = "wrong_type" ->
                  Resolved(<<"Expected a PDF but got content-type: text/html.">>)
             [] outcome = "401" ->
                  Resolved(<<"Access denied (HTTP 401). This PDF may be paywalled.">>)
             [] outcome = "404" ->
                  Resolved(<<"PDF not found (HTTP 404). The URL may be outdated.">>)
             [] OTHER -> Resolved(<<"Failed to fetch PDF: HTTP ", outcome, ".">>)

\* ToolFetchSettles calling on429() without the response's retry-after header
ToolFetchSettlesHeaderless(outcome, header) ==
    /\ thCall # None
    /\ thCall[1].pc = "fetching"
    /\ header # NoHeader => (thCall[1].name = "web_search" /\ outcome = "429")
    /\ LET name == thCall[1].name
           goesOn == \/ outcome = "ok"
                     \/ name = "web_search" /\ outcome = "wrong_type"
           l == IF name # "web_search" THEN Limiter
                ELSE IF outcome = "429" THEN on429(Limiter, NoHeader, rlNow)
                ELSE IF goesOn THEN onSuccess(Limiter, rlNow)
                ELSE Limiter
       IN /\ thCall' = IF goesOn THEN Dispatched(name, "body", thCall[1].key, Pending)
                       ELSE Settled(name, ToolFetchFailed(name, outcome))
          /\ backoffMs' = l.backoffMs
          /\ nextAllowedAt' = l.nextAllowedAt
    /\ UNCHANGED <<thRuns, rlNow, rlCall, rlTicks, rlResponses, runVars, orchVars, efVars, pdfVars>>

\* fetchWithTimeout settles for the dispatched tool
ToolFetchSettles(outcome, header) ==
    /\ thCall # None
    /\ thCall[1].pc = "fetching"
    /\ header # NoHeader => (thCall[1].name = "web_search" /\ outcome = "429")
    /\ LET name == thCall[1].name
           goesOn == \/ outcome = "ok"
                     \/ name = "web_search" /\ outcome = "wrong_type"
           l == IF name # "web_search" THEN Limiter
                ELSE IF outcome = "429" THEN on429(Limiter, header, rlNow)
                ELSE IF goesOn THEN onSuccess(Limiter, rlNow)
                ELSE Limiter
       IN /\ thCall' = IF goesOn THEN Dispatched(name, "body", thCall[1].key, Pending)
                       ELSE Settled(name, ToolFetchFailed(name, outcome))
          /\ backoffMs' = l.backoffMs
          /\ nextAllowedAt' = l.nextAllowedAt
    /\ UNCHANGED <<thRuns, rlNow, rlCall, rlTicks, rlResponses, runVars, orchVars, efVars, pdfVars>>

\* the body is read: response.json() of web_search, response.text() and
\* parseHTML of read_url, response.arrayBuffer() and the cache insertion of
\* read_pdf_page
ToolBodySettles(outcome) ==
    /\ thCall # None
    /\ thCall[1].pc = "body"
    /\ LET name == thCall[1].name
       IN CASE name = "web_search" ->
                 /\ thCall' = Settled(name,
                        IF outcome = "read" THEN Resolved(<<"**Results:**">>)
                        ELSE Resolved(<<"Search error: ", outcome, ". Try a simpler query.">>))
                 /\ UNCHANGED pdfCache
            [] name = "read_url" ->
                 /\ thCall' = Settled(name,
                        IF outcome = "read" THEN Resolved(<<"**Title**: ", "**URL**: ", "**Content**:">>)
                        ELSE Resolved(<<"Error fetching URL: ", outcome,
                                        ". Try searching for this source using web_search.">>))
                 /\ UNCHANGED pdfCache
            [] OTHER ->
                 IF outcome = "stream_error"
                 THEN /\ thCall' = Settled(name, Rejected(<<outcome>>))
                      /\ UNCHANGED pdfCache
                 ELSE /\ thCall' = Dispatched(name, "parsing", 0, Pending)
                      /\ pdfCache' = CacheInsert(pdfCache,
                                         [scheme |-> "https://", rest |-> thCall[1].key],
                                         thCall[1].key)
    /\ UNCHANGED <<thRuns, pdfCall, pdfCalls, runVars, orchVars, efVars, rlVars>>

\* pdfParse settles, inside the try block of readPdfPage
ToolPdfParsed(outcome) ==
    /\ thCall # None
    /\ thCall[1].pc = "parsing"
    /\ thCall' = Settled(thCall[1].name,
          CASE outcome = "text" -> Resolved(<<"**PDF**: url **Page**: n/m text">>)
            [] outcome = "out_of_range" ->
                 Resolved(<<"PDF has m pages. Requested page is out of range.">>)
            [] OTHER -> Resolved(<<"Failed to parse PDF: message">>))
    /\ UNCHANGED <<thRuns, runVars, orchVars, efVars, rlVars, pdfVars>>

InitTH ==
    /\ OrchIdle
    /\ RLIdle
    /\ PDFIdle
    /\ THIdle
    /\ RunsIdle
    /\ efPc = "idle"
    /\ efContext \in {None, VerificationContext(CHOOSE l \in NumberedLists(1) : Len(l) = 1, 0)}
    /\ efIndex = None
    /\ efCount = 0
    /\ efOut = None
    /\ efInlineOut = None

NextTH ==
    \/ \E name \in {"web_search", "read_url", "read_pdf_page", "get_earlier_footnotes",
                      "summarize"},
          args \in [url : {None} \cup {Some(u) : u \in {v \in PdfUrls : v.rest = 1}},
                    pageValid : BOOLEAN,
                    index : {None, Some(1)}],
          apiKey \in {Null, LinkupKey} :
          ToolCalled(name, args, apiKey)
    \/ ToolSleepEnds
    \/ \E outcome \in {"ok", "401", "404", "429", "500", "wrong_type", "network_error",
                         "abort"},
          header \in {NoHeader, SecondsHeader(5)} :
          ToolFetchSettles(outcome, header)
    \/ \E outcome \in {"read", "unparsable", "stream_error"} : ToolBodySettles(outcome)
    \/ \E outcome \in {"text", "out_of_range", "throws"} : ToolPdfParsed(outcome)
    \/ \E d \in {2000, 5000} : ClockAdvances(d)

SpecTH == InitTH /\ [][NextTH]_vars


\* ------------------------------------------------- parseVerificationResponse
\* A response text is a sequence of tokens: prose words, white space, braces,
\* and the members ("key": value) a JSON object is written with.
Field(k, v) == [k |-> k, v |-> v]
Space == Field("text", " ")
Open == Field("text", "{")
Close == Field("text", "}")


\* the sources array a member value stands for; "" is a property left out
SourcesOf(v) ==
    CASE v = "unread" -> <<[accessed |-> "false", verdict |-> "supports", url |-> "u1"]>>
      [] v = "read" -> <<[accessed |-> "true", verdict |-> "not_applicable", url |-> "u1"]>>
      [] v = "unread,read" ->
           <<[accessed |-> "", verdict |-> "", url |-> "u1"],
             [accessed |-> "true", verdict |-> "partially_supports", url |-> "u2"]>>
      [] v = "read-no-url,read" ->
           <<[accessed |-> "true", verdict |-> "contradicts", url |-> ""],
             [accessed |-> "true", verdict |-> "maybe", url |-> "u2"]>>
      [] OTHER -> <<>>

\* String.prototype.trim
RECURSIVE Trim(_)
Trim(text) ==
    IF text = <<>> THEN text
    ELSE IF Head(text) = Space THEN Trim(Tail(text))
    ELSE IF text[Len(text)] = Space THEN Trim(SubSeq(text, 1, Len(text) - 1))
    ELSE text

\* the text as the characters it is written with
RECURSIVE Show(_)
Show(text) ==
    IF text = <<>> THEN <<>>
    ELSE (IF Head(text).k = "text" THEN <<Head(text).v>>
          ELSE <<Head(text).k, ":", Head(text).v>>) \o Show(Tail(text))

\* text.match(/\{[\s\S]*\}/): from the first opening brace to the last closing
\* brace behind it
JsonMatch(text) ==
    LET opens == {i \in 1..Len(text) : text[i] = Open}
        closes == {i \in 1..Len(text) : text[i] = Close}
    IN IF opens = {} \/ closes = {} THEN None
       ELSE LET a == CHOOSE i \in opens : \A j \in opens : i <= j
                b == CHOOSE i \in closes : \A j \in closes : i >= j
            IN IF a < b THEN Some(SubSeq(text, a, b)) ELSE None

\* JSON.parse of a matched slice: the members of the object, or None where it
\* throws a SyntaxError
JsonParse(slice) ==
    IF /\ Len(slice) >= 2
       /\ slice[1] = Open
       /\ slice[Len(slice)] = Close
       /\ \A i \in 2..(Len(slice) - 1) : slice[i].k # "text"
    THEN Some(SubSeq(slice, 2, Len(slice) - 1))
    ELSE None

\* parsed.key: the last member of that name wins
Member(parsed, key) ==
    LET at == {i \in 1..Len(parsed) : parsed[i].k = key}
    IN IF at = {} THEN None
       ELSE Some(parsed[CHOOSE i \in at : \A j \in at : i >= j].v)

\* the return of the catch block
ParseFailed(text, footnoteId) ==
    [footnoteId |-> footnoteId, verdict |-> "source_unavailable", confidence |-> 0,
     explanation |-> <<"Failed to parse verification response">>
                     \o (IF Trim(text) # <<>> THEN <<": ">> \o Show(Trim(text)) ELSE <<>>),
     sourceAccessed |-> FALSE, sourceUrl |-> None, sources |-> None, trace |-> None]

\* a verdict taken as it is written
ValidVerdictUnchecked(verdict) == verdict
\* validVerdicts.includes(verdict) ? verdict : "source_unavailable"; "" is undefined
ValidVerdict(verdict) ==
    IF verdict \in {"supports", "partially_supports", "does_not_support",
                    "contradicts", "source_unavailable"}
    THEN verdict ELSE "source_unavailable"

\* primaryUrl taking the first listed source that has a URL, accessed or not
primaryUrlUnaccessed(sources, source_url) ==
    LET withUrl == {i \in 1..Len(sources) : sources[i].url # None}
    IN IF withUrl # {}
       THEN sources[CHOOSE i \in withUrl : \A j \in withUrl : i <= j].url
       ELSE source_url

\* sources.find((s) => s.url && s.accessed)?.url || parsed.source_url || undefined
primaryUrl(sources, source_url) ==
    LET withUrl == {i \in 1..Len(sources) : sources[i].url # None /\ sources[i].accessed}
    IN IF withUrl # {}
       THEN sources[CHOOSE i \in withUrl : \A j \in withUrl : i <= j].url
       ELSE source_url

\* the return of the try block
ParsedVerification(parsed, footnoteId) ==
    LET listed == IF Member(parsed, "sources") = None THEN <<>>
                  ELSE SourcesOf(Member(parsed, "sources")[1])
        sources == [i \in 1..Len(listed) |->
                      [url |-> IF listed[i].url = "" THEN None ELSE Some(listed[i].url),
                       accessed |-> listed[i].accessed = "true",
                       verdict |-> ValidVerdict(listed[i].verdict)]]
        overallVerdict == IF Member(parsed, "overall_verdict") # None
                          THEN Member(parsed, "overall_verdict")
                          ELSE Member(parsed, "verdict")
        confidence == Member(parsed, "confidence")
    IN [footnoteId |-> footnoteId,
        verdict |-> ValidVerdict(IF overallVerdict = None THEN "" ELSE overallVerdict[1]),
        confidence |-> CASE confidence = Some("0.9") -> 90
                         [] confidence = Some("1.5") -> 150
                         [] confidence = Some("-0.2") -> -20
                         [] OTHER -> 50,
        explanation |-> IF Member(parsed, "explanation") # None
                        THEN Member(parsed, "explanation")
                        ELSE <<"Unable to parse explanation">>,
        sourceAccessed |-> \/ \E i \in 1..Len(sources) : sources[i].accessed
                           \/ Member(parsed, "source_accessed") = Some("true"),
        sourceUrl |-> primaryUrl(sources, Member(parsed, "source_url")),
        sources |-> IF sources = <<>> THEN None ELSE Some(sources),
        trace |-> None]

parseVerificationResponse(text, footnoteId) ==
    IF Trim(text) = <<>> THEN ParseFailed(text, footnoteId)
    ELSE IF JsonMatch(text) = None THEN ParseFailed(text, footnoteId)
    ELSE IF JsonParse(JsonMatch(text)[1]) = None THEN ParseFailed(text, footnoteId)
    ELSE ParsedVerification(JsonParse(JsonMatch(text)[1])[1], footnoteId)

ParseResponse(footnoteId) ==
    /\ pvOut = None
    /\ pvId' = footnoteId
    /\ pvOut' = Some(parseVerificationResponse(pvText, footnoteId))
    /\ UNCHANGED <<pvText, vfRun, pa, orchVars, efVars, rlVars, pdfVars, thVars>>

InitPV ==
    /\ OrchIdle
    /\ EFIdle
    /\ RLIdle
    /\ PDFIdle
    /\ THIdle
    /\ vfRun = None
    /\ pa = PAIdle
    \* The texts are token lists; the answers of the model are one JSON object of
    \* up to n members. A confidence is written as a number or as a word; a
    \* sources array is named by what it lists.
    /\ LET
         Texts(n) ==
             LET Tokens ==
                   {Field("text", "w"), Space, Open, Close,
                    Field("overall_verdict", "supports"), Field("overall_verdict", "maybe"),
                    Field("verdict", "contradicts"), Field("confidence", "0.9"),
                    Field("explanation", "e"), Field("source_accessed", "true"),
                    Field("sources", "read")}
             IN UNION {[1..k -> Tokens] : k \in 0..n}
         Answers(n) ==
             LET members ==
                   {Field("overall_verdict", "supports"), Field("overall_verdict", "not_applicable"),
                    Field("overall_verdict", "maybe"), Field("verdict", "contradicts"),
                    Field("confidence", "0.9"), Field("confidence", "1.5"),
                    Field("confidence", "-0.2"), Field("confidence", "high"),
                    Field("explanation", "e"), Field("source_accessed", "true"),
                    Field("source_url", "u0"),
                    Field("sources", "unread"), Field("sources", "read"),
                    Field("sources", "unread,read"), Field("sources", "read-no-url,read")}
             IN {<<Open>> \o m \o <<Close>> : m \in UNION {[1..k -> members] : k \in 0..n}}
       IN pvText \in Texts(MaxTextLen) \cup Answers(MaxMembers)
    /\ pvId = 0
    /\ pvOut = None

NextPV == \E footnoteId \in {1, 2} : ParseResponse(footnoteId)

SpecPV == InitPV /\ [][NextPV]_vars


\* ------------------------------------------------- verifyFootnote in detail
\* the tools the model asks for: one that always resolves to a string and
\* read_pdf_page, whose promise may reject
\* the text and the inline data of a response
Payloads ==
    LET JsonAnswer == <<Open, Field("overall_verdict", "supports"),
                        Field("confidence", "0.9"), Close>>
    IN {[text |-> <<>>, data |-> <<>>], [text |-> <<Space>>, data |-> <<>>],
        [text |-> <<Space>>, data |-> JsonAnswer], [text |-> JsonAnswer, data |-> <<>>],
        [text |-> <<Field("text", "w")>>, data |-> <<>>]}
Responses ==
    {[text |-> p.text, data |-> p.data, functionCalls |-> c] :
        p \in Payloads,
        c \in {<<>>, <<"web_search">>, <<"read_pdf_page">>,
               <<"web_search", "read_pdf_page">>}}

getResponseText(response) ==
    IF Trim(response.text) # <<>> THEN response.text
    ELSE IF response.data # <<>> THEN response.data
    ELSE <<>>

\* the promise of verifyFootnote, resolved
Returned(v) == [settled |-> "resolved", value |-> Some(v)]

\* a catch block that rethrows
VerificationErrorRethrown(footnoteId, message, tr) ==
    [settled |-> "rejected", value |-> None]
\* the return of the catch block of verifyFootnote
VerificationError(footnoteId, message, tr) ==
    Returned([footnoteId |-> footnoteId, verdict |-> "source_unavailable",
              confidence |-> 0, explanation |-> <<"Verification error: ", message>>,
              sourceAccessed |-> FALSE, trace |-> Some(tr)])


Return(run, exit, result) ==
    [run EXCEPT !.pc = "returned", !.exit = exit, !.result = result]

\* "Parse final response": what the run does with the text it has; for a text
\* that is not empty, verification = parseVerificationResponse(text, footnoteId)
\* and verification.trace = trace
FinalText(run, text) ==
    IF Trim(text) = <<>>
    THEN LET parts == (IF run.response.text # <<>> THEN 1 ELSE 0)
                          + Len(run.response.functionCalls)
         IN Return([run EXCEPT !.text = text], "empty",
                Returned([footnoteId |-> run.footnoteId, verdict |-> "source_unavailable",
                          confidence |-> 0,
                          explanation |-> <<"Empty response from model">>
                              \o (IF parts > 0 THEN <<" (parts: ", ToString(parts), ")">>
                                  ELSE <<>>)
                              \o (IF run.response.functionCalls # <<>>
                                  THEN <<"; functionCall: ", run.response.functionCalls[1]>>
                                  ELSE <<>>),
                          sourceAccessed |-> FALSE, trace |-> Some(run.trace)]))
    ELSE Return([run EXCEPT !.text = text], "parsed",
                Returned([parseVerificationResponse(text, run.footnoteId)
                            EXCEPT !.trace = Some(run.trace)]))

\* AfterResponse leaving the loop one turn late (iterations > maxIterations)
AfterResponseLate(run, response, iterations) ==
    LET r == [run EXCEPT !.response = response, !.iterations = iterations]
        functionCalls == response.functionCalls
        text == getResponseText(response)
    IN IF functionCalls # <<>> /\ iterations <= maxIterations
       THEN [r EXCEPT !.pc = "tools"]
       ELSE IF Trim(text) = <<>> /\ functionCalls # <<>>
            THEN [r EXCEPT !.pc = "fallback_tools", !.text = text]
            ELSE FinalText(r, text)
\* the run after a response of the chat: the test of the while loop, and
\* behind the loop the text of the response or the pending calls of the fallback
AfterResponse(run, response, iterations) ==
    LET r == [run EXCEPT !.response = response, !.iterations = iterations]
        functionCalls == response.functionCalls
        text == getResponseText(response)
    IN IF functionCalls # <<>> /\ iterations < maxIterations
       THEN [r EXCEPT !.pc = "tools"]
       ELSE IF Trim(text) = <<>> /\ functionCalls # <<>>
            THEN [r EXCEPT !.pc = "fallback_tools", !.text = text]
            ELSE FinalText(r, text)

\* what a verifyFootnote run does not touch
vfRest == <<footnotes, hasGeminiKey, linkupApiKey, pdPc, inflight, blobStored,
            actorStored, sortedFootnotes, results, nextIndex, active, resolved,
            output, chainQueue, progressCalls, lastProgress, iife, vf, qv, trace,
            efVars, rlVars, pdfVars, thVars, pvText, pvId, pvOut, pa>>

\* the run moves on; the finally block clears the module-level state on return
RunBecomes(run) ==
    /\ vfRun' = Some(run)
    /\ IF run.pc = "returned"
       THEN currentContext' = None /\ currentLinkupApiKey' = Null
       ELSE UNCHANGED <<currentContext, currentLinkupApiKey>>

\* verifyFootnote is called: the module-level state is set and the first
\* message is sent
VerifyFootnoteCalled(footnoteId, linkupKey) ==
    /\ vfRun = None
    /\ currentContext' = VerificationContext(CHOOSE l \in NumberedLists(1) : Len(l) = 1, 0)
    /\ currentLinkupApiKey' = IF linkupKey = Undefined THEN Null ELSE linkupKey
    /\ vfRun' = Some([footnoteId |-> footnoteId, pc |-> "first", exit |-> "none",
                      iterations |-> 0, response |-> [text |-> <<>>, data |-> <<>>, functionCalls |-> <<>>], text |-> <<>>,
                      trace |-> <<>>, modelCalls |-> 1, toolOutputs |-> None,
                      result |-> [settled |-> "pending", value |-> None]])
    /\ UNCHANGED vfRest

\* a model call throws: chat.sendMessage on the first message or on a
\* follow-up, or genai.models.generateContent of the fallback
ModelCallThrows ==
    /\ vfRun # None
    /\ vfRun[1].pc \in {"first", "followup", "fallback"}
    /\ RunBecomes(Return(vfRun[1], "catch",
                         VerificationError(vfRun[1].footnoteId, "model call failed",
                                           vfRun[1].trace)))
    /\ UNCHANGED vfRest

\* chat.sendMessage returns a response
ChatResponds(response) ==
    /\ vfRun # None
    /\ vfRun[1].pc \in {"first", "followup"}
    /\ RunBecomes(AfterResponse(vfRun[1], response,
                                IF vfRun[1].pc = "first" THEN 0
                                ELSE vfRun[1].iterations + 1))
    /\ UNCHANGED vfRest

\* Promise.all over the tool calls of the response settles. The calls in
\* rejecting reject; done are the calls that have pushed their record by then.
ToolRoundSettles(rejecting, done) ==
    /\ vfRun # None
    /\ vfRun[1].pc \in {"tools", "fallback_tools"}
    /\ LET run == vfRun[1]
           calls == run.response.functionCalls
           kept == SelectSeq([i \in 1..Len(calls) |-> [at |-> i, tool |-> calls[i]]],
                             LAMBDA c : c.at \in done)
           withRecords == [run EXCEPT !.trace =
                              @ \o [i \in 1..Len(kept) |-> [tool |-> kept[i].tool]]]
       IN /\ rejecting \subseteq {i \in 1..Len(calls) : calls[i] = "read_pdf_page"}
          /\ done \subseteq (1..Len(calls)) \ rejecting
          /\ rejecting = {} => done = 1..Len(calls)
          /\ RunBecomes(
                IF rejecting # {}
                THEN Return(withRecords, "catch",
                            VerificationError(run.footnoteId, "tool call failed",
                                              withRecords.trace))
                ELSE IF run.pc = "tools"
                THEN [withRecords EXCEPT !.pc = "followup", !.modelCalls = @ + 1]
                ELSE [withRecords EXCEPT !.pc = "fallback", !.modelCalls = @ + 1,
                                         !.toolOutputs = Some(calls)])
    /\ UNCHANGED vfRest

\* genai.models.generateContent of the fallback returns
FallbackResponds(payload) ==
    /\ vfRun # None
    /\ vfRun[1].pc = "fallback"
    /\ RunBecomes(FinalText(vfRun[1],
                            getResponseText([text |-> payload.text, data |-> payload.data,
                                             functionCalls |-> <<>>])))
    /\ UNCHANGED vfRest

InitVF ==
    /\ OrchIdle
    /\ EFIdle
    /\ RLIdle
    /\ PDFIdle
    /\ THIdle
    /\ RunsIdle

NextVF ==
    \/ \E footnoteId \in {1, 2}, linkupKey \in {Undefined, LinkupKey} :
          VerifyFootnoteCalled(footnoteId, linkupKey)
    \/ ModelCallThrows
    \/ \E response \in Responses : ChatResponds(response)
    \/ \E rejecting \in SUBSET (1..2), done \in SUBSET (1..2) :
          ToolRoundSettles(rejecting, done)
    \/ \E payload \in Payloads : FallbackResponds(payload)

SpecVF == InitVF /\ [][NextVF]_vars


\* ============================================= the progress actor (SpecPA)
\* ProgressDurableObject with its store. The two stores are fed the same set
\* operations side by side; the actor reads and answers through the one its
\* environment offers (useSql). A handler runs without another one in between:
\* its only awaits past the request body are on the actor's own storage.
\* A snapshot's error is a JavaScript value: undefined, null or a string.

\* createKvStore.set: the snapshot put into the slot and returned
KvSetMerging(payload, now) ==
    [status |-> payload.status,
     updatedAt |-> IF payload.updatedAt # None THEN payload.updatedAt[1] ELSE now,
     footnoteCount |-> payload.footnoteCount,
     verifications |-> IF payload.verifications # None
                       THEN payload.verifications[1] ELSE <<>>,
     error |-> IF payload.error # None
               THEN [type |-> "string", text |-> payload.error[1]]
               ELSE IF pa.kv # None THEN pa.kv[1].error
               ELSE [type |-> "undefined", text |-> ""]]
KvSet(payload, now) ==
    [status |-> payload.status,
     updatedAt |-> IF payload.updatedAt # None THEN payload.updatedAt[1] ELSE now,
     footnoteCount |-> payload.footnoteCount,
     verifications |-> IF payload.verifications # None
                       THEN payload.verifications[1] ELSE <<>>,
     error |-> IF payload.error # None
               THEN [type |-> "string", text |-> payload.error[1]]
               ELSE [type |-> "undefined", text |-> ""]]

\* createSqlStore.set: the row the upsert leaves in the table and the snapshot
\* returned. JSON.stringify writes an array as its items between brackets, an
\* item as its members between braces.
SqlSet(payload, now) ==
    LET RECURSIVE Stringify(_)
        Stringify(list) ==
            IF list = <<>> THEN <<>>
            ELSE <<"{", Head(list).footnoteId, Head(list).verdict, "}">>
                 \o Stringify(Tail(list))
        updatedAt == IF payload.updatedAt # None THEN payload.updatedAt[1] ELSE now
        verifications == IF payload.verifications # None
                         THEN payload.verifications[1] ELSE <<>>
    IN [row |-> [status |-> payload.status,
                 updated_at |-> updatedAt,
                 footnote_count |-> payload.footnoteCount,
                 verifications_json |-> <<"[">> \o Stringify(verifications) \o <<"]">>,
                 error |-> IF payload.error # None
                           THEN [type |-> "string", text |-> payload.error[1]]
                           ELSE [type |-> "null", text |-> ""]],
        snapshot |-> [status |-> payload.status,
                      updatedAt |-> updatedAt,
                      footnoteCount |-> payload.footnoteCount,
                      verifications |-> verifications,
                      error |-> IF payload.error # None
                                THEN [type |-> "string", text |-> payload.error[1]]
                                ELSE [type |-> "undefined", text |-> ""]]]

\* createSqlStore.get: null without a row, else the snapshot read off the row
SqlGet(table) ==
    IF table = None THEN None
    ELSE LET row == table[1]
             RECURSIVE Parse(_)
             Parse(text) ==
                 IF Len(text) < 4 THEN <<>>
                 ELSE <<[footnoteId |-> text[2], verdict |-> text[3]]>>
                      \o Parse(SubSeq(text, 5, Len(text)))
             json == IF row.verifications_json = <<>> THEN <<"[", "]">>
                     ELSE row.verifications_json
         IN Some([status |-> row.status,
                  updatedAt |-> row.updated_at,
                  footnoteCount |-> row.footnote_count,
                  verifications |-> Parse(SubSeq(json, 2, Len(json) - 1)),
                  error |-> row.error])

\* broadcast stopping at the first send that throws, where the code catches
\* inside the loop and goes on
broadcastAborting(sessions, inbox, failing, snapshot) ==
    LET reached == {ws \in sessions : \A f \in failing : ws < f}
    IN [sessions |-> sessions \ failing,
        inbox |-> [ws \in DOMAIN inbox |->
                     IF ws \in reached
                     THEN [count |-> inbox[ws].count + 1,
                           last |-> Some([type |-> "progress", data |-> snapshot])]
                     ELSE IF ws \in failing THEN [count |-> 0, last |-> None]
                     ELSE inbox[ws]]]
\* broadcast: every session is sent the message; one whose send throws is
\* deleted from sessions
broadcast(sessions, inbox, failing, snapshot) ==
    [sessions |-> sessions \ failing,
     inbox |-> [ws \in DOMAIN inbox |->
                  IF ws \in sessions \ failing
                  THEN [count |-> inbox[ws].count + 1,
                        last |-> Some([type |-> "progress", data |-> snapshot])]
                  ELSE IF ws \in failing THEN [count |-> 0, last |-> None]
                  ELSE inbox[ws]]]

\* sendSnapshot sending nothing, leaving the subscriber to the next set
sendSnapshotNever(inbox, ws, got) == inbox
\* sendSnapshot: the stored snapshot, where there is one, goes to the socket
sendSnapshot(inbox, ws, got) ==
    IF got = None THEN inbox
    ELSE [inbox EXCEPT ![ws] = [count |-> @.count + 1,
                                last |-> Some([type |-> "progress", data |-> got[1]])]]

\* fetch with Upgrade: websocket. The server socket of a new pair (sockets are
\* numbered as they are made) joins sessions, then the stored snapshot is sent;
\* a send that throws rejects the fetch.
Attach(ws, sendThrows) ==
    LET got == IF pa.useSql THEN SqlGet(pa.sql) ELSE pa.kv
    IN /\ ws = Cardinality(pa.attached) + 1
       /\ got = None => ~sendThrows
       /\ pa' = [pa EXCEPT !.attached = @ \cup {ws},
                           !.sessions = @ \cup {ws},
                           !.inbox = IF sendThrows THEN @ ELSE sendSnapshot(@, ws, got),
                           !.response = IF sendThrows THEN "rejected" ELSE "101"]
       /\ UNCHANGED <<pvText, pvId, pvOut, vfRun, orchVars, efVars, rlVars,
                      pdfVars, thVars>>

\* the close or error event of a socket
SocketCloses(ws) ==
    /\ ws \in pa.sessions
    /\ pa' = [pa EXCEPT !.sessions = @ \ {ws},
                        !.inbox[ws] = [count |-> 0, last |-> None],
                        !.response = "none"]
    /\ UNCHANGED <<pvText, pvId, pvOut, vfRun, orchVars, efVars, rlVars,
                   pdfVars, thVars>>

\* SetAndBroadcast sending the snapshot that was stored before the set
SetAndBroadcastPrevious(payload, now, failing) ==
    LET kv == KvSet(payload, now)
        sql == SqlSet(payload, now)
        got == IF pa.useSql THEN SqlGet(pa.sql) ELSE pa.kv
        sent == broadcast(pa.sessions, pa.inbox, failing,
                          IF got # None THEN got[1]
                          ELSE IF pa.useSql THEN sql.snapshot ELSE kv)
    IN [pa EXCEPT !.kv = Some(kv),
                  !.sql = Some(sql.row),
                  !.payload = Some(payload),
                  !.returned = Some([kv |-> kv, sql |-> sql.snapshot]),
                  !.sessions = sent.sessions,
                  !.inbox = sent.inbox,
                  !.threw = failing,
                  !.sets = @ + 1,
                  !.response = "204"]
\* the actor after `await this.setProgress(payload)` and `this.broadcast(snapshot)`
SetAndBroadcast(payload, now, failing) ==
    LET kv == KvSet(payload, now)
        sql == SqlSet(payload, now)
        sent == broadcast(pa.sessions, pa.inbox, failing,
                          IF pa.useSql THEN sql.snapshot ELSE kv)
    IN [pa EXCEPT !.kv = Some(kv),
                  !.sql = Some(sql.row),
                  !.payload = Some(payload),
                  !.returned = Some([kv |-> kv, sql |-> sql.snapshot]),
                  !.sessions = sent.sessions,
                  !.inbox = sent.inbox,
                  !.threw = failing,
                  !.sets = @ + 1,
                  !.response = "204"]

\* fetch POST /progress: store.set, then broadcast of the snapshot it returned
PostProgress(payload, now, failing) ==
    /\ pa.sets < MaxSets
    /\ failing \subseteq pa.sessions
    /\ pa' = SetAndBroadcast(payload, now, failing)
    /\ UNCHANGED <<pvText, pvId, pvOut, vfRun, orchVars, efVars, rlVars,
                   pdfVars, thVars>>

\* the bodies of POST /progress: a ProgressUpdate with or without verifications,
\* error and updatedAt
ProgressUpdates ==
    {[status |-> status, footnoteCount |-> footnoteCount,
      verifications |-> verifications, error |-> error, updatedAt |-> updatedAt] :
        status \in {"processing", "failed"}, footnoteCount \in {1, 2},
        verifications \in {None, Some(<<[footnoteId |-> "1", verdict |-> "supports"]>>)},
        error \in {None, Some("e")}, updatedAt \in {None, Some("t0")}}

InitPA ==
    /\ OrchIdle
    /\ EFIdle
    /\ RLIdle
    /\ PDFIdle
    /\ THIdle
    /\ pvText = <<>>
    /\ pvId = 0
    /\ pvOut = None
    /\ vfRun = None
    /\ \E useSql \in BOOLEAN : pa = [PAIdle EXCEPT !.useSql = useSql]

NextPA ==
    \/ \E ws \in 1..MaxSockets, sendThrows \in BOOLEAN : Attach(ws, sendThrows)
    \/ \E ws \in 1..MaxSockets : SocketCloses(ws)
    \/ \E payload \in ProgressUpdates, now \in {"t1"}, failing \in SUBSET (1..MaxSockets) :
          PostProgress(payload, now, failing)

SpecPA == InitPA /\ [][NextPA]_vars

\* ------------------------------------- requests that overlap (SpecPO)
\* The handler of a POST gives the actor up while it awaits request.json():
\* other requests are taken in meanwhile, and the bodies arrive in any order.
\* From the body on, a handler awaits only the actor's own storage, during
\* which the actor takes in no other event.

\* fetch POST /progress up to `await request.json()`
PostReceived(payload) ==
    /\ payload \notin pa.pending
    /\ pa.sets + Cardinality(pa.pending) < MaxSets
    /\ pa' = [pa EXCEPT !.pending = @ \cup {payload}, !.response = "none"]
    /\ UNCHANGED <<pvText, pvId, pvOut, vfRun, orchVars, efVars, rlVars,
                   pdfVars, thVars>>

\* the body of a POST has been read: store.set, broadcast, the 204 response
PostBodyRead(payload, now, failing) ==
    /\ payload \in pa.pending
    /\ failing \subseteq pa.sessions
    /\ pa' = [SetAndBroadcast(payload, now, failing) EXCEPT !.pending = @ \ {payload}]
    /\ UNCHANGED <<pvText, pvId, pvOut, vfRun, orchVars, efVars, rlVars,
                   pdfVars, thVars>>

NextPO ==
    \/ \E ws \in 1..MaxSockets, sendThrows \in BOOLEAN : Attach(ws, sendThrows)
    \/ \E ws \in 1..MaxSockets : SocketCloses(ws)
    \/ \E payload \in {p \in ProgressUpdates :
                          p.footnoteCount = 1 /\ p.verifications = None /\ p.updatedAt = None} :
          PostReceived(payload)
    \/ \E payload \in ProgressUpdates, now \in {"t1"}, failing \in SUBSET (1..MaxSockets) :
          PostBodyRead(payload, now, failing)

SpecPO == InitPA /\ [][NextPO]_vars

\* ==================================== the worker pool on its own (SpecSched)
\* verifyAllFootnotes called without an onProgress callback (options is an
\* optional argument) on a list longer than the pool is wide. The progress
\* chain is never awaited by a wrapper, so what is left out here has no way to
\* act on nextIndex, active or results.

\* The wrapper of footnote i stores v and its .finally either resolves
\* verifyAllFootnotes or calls runNext; `if (options?.onProgress)` is false.
WrapperCompletes(i, v, exit, s0) ==
    LET res1 == StoreResult(results, i, v)
        s1 == [s0 EXCEPT !.active = s0.active - 1, !.iife[i] = exit]
        allDone == s1.nextIndex >= N /\ s1.active = 0
        s2 == IF allDone THEN s1 ELSE runNext(s1, N)
    IN /\ results' = res1
       /\ nextIndex' = s2.nextIndex
       /\ active' = s2.active
       /\ iife' = s2.iife
       /\ vf' = s2.vf
       /\ currentContext' = s2.context
       /\ currentLinkupApiKey' = s2.key
       /\ resolved' = allDone
       /\ output' = IF allDone THEN Snapshot(res1) ELSE output

\* verifyAllFootnotes up to the first await of its runs
VerifyAllFootnotesCalled ==
    /\ pdPc = "start"
    /\ VerifyAllFootnotesBegins(inflight)
    /\ UNCHANGED <<footnotes, hasGeminiKey, linkupApiKey, blobStored, actorStored,
                   qv, trace, efVars, toolVars>>

\* verifyFootnote returns its Verification: the wrapper that still awaits it
\* completes, a wrapper that timed out never sees the value
RunReturns(i) ==
    /\ i \in Pos
    /\ vf[i] = "running"
    /\ LET s0 == [Sched EXCEPT !.vf[i] = "returned", !.context = None, !.key = Null]
       IN IF iife[i] = "primary"
          THEN WrapperCompletes(i, PrimaryVerification(FootnoteAt(i).id, trace[i]),
                                "done_primary", s0)
          ELSE /\ vf' = s0.vf
               /\ currentContext' = s0.context
               /\ currentLinkupApiKey' = s0.key
               /\ UNCHANGED <<results, nextIndex, active, resolved, output, iife>>
    /\ UNCHANGED <<procVars, pdPc, inflight, chainQueue, progressCalls, lastProgress, trace, qv>>

\* the model call of quickVerifyFootnote settles
QuickReturns(i, outcome) ==
    /\ i \in Pos
    /\ qv[i] = "running"
    /\ qv' = [qv EXCEPT ![i] = "settled"]
    /\ LET s0 == [Sched EXCEPT !.key = Null]
       IN IF iife[i] = "quick"
          THEN WrapperCompletes(i, IF outcome = "answer"
                                   THEN QuickVerification(FootnoteAt(i).id)
                                   ELSE FallbackPlaceholder(FootnoteAt(i).id, QuickThrowMessage),
                                IF outcome = "throw" THEN "done_quick_threw" ELSE "done_quick",
                                s0)
          ELSE /\ currentLinkupApiKey' = s0.key
               /\ UNCHANGED <<results, nextIndex, active, resolved, output, iife, vf,
                              currentContext>>
    /\ UNCHANGED <<procVars, pdPc, inflight, chainQueue, progressCalls, lastProgress, trace>>

\* the 15000 ms timer of the quick pass fires
QuickRunTimesOut(i) ==
    /\ i \in Pos
    /\ iife[i] = "quick"
    /\ WrapperCompletes(i, FallbackPlaceholder(FootnoteAt(i).id, QuickTimeoutMessage),
                        "done_quick_timeout", Sched)
    /\ UNCHANGED <<procVars, pdPc, inflight, chainQueue, progressCalls, lastProgress, trace, qv>>

InitSched ==
    /\ footnotes \in NumberedLists(MaxSchedFootnotes)
    /\ hasGeminiKey = TRUE
    /\ linkupApiKey = LinkupKey
    /\ pdPc = "start"
    /\ inflight = <<>>
    /\ blobStored = None
    /\ actorStored = None
    /\ sortedFootnotes = <<>>
    /\ results = [i \in Pos |-> None]
    /\ nextIndex = 0
    /\ active = 0
    /\ resolved = FALSE
    /\ output = <<>>
    /\ chainQueue = <<>>
    /\ progressCalls = 0
    /\ lastProgress = <<>>
    /\ iife = [i \in Pos |-> "idle"]
    /\ vf = [i \in Pos |-> "none"]
    /\ qv = [i \in Pos |-> "none"]
    /\ trace = [i \in Pos |-> <<>>]
    /\ currentContext = None
    /\ currentLinkupApiKey = Null
    /\ EFIdle
    /\ ToolsIdle

NextSched ==
    \/ VerifyAllFootnotesCalled
    \/ \E i \in 0..(MaxSchedFootnotes - 1) : RunReturns(i)
    \/ \E i \in 0..(MaxSchedFootnotes - 1) : PrimaryTimesOut(i)
    \/ \E i \in 0..(MaxSchedFootnotes - 1), outcome \in {"answer", "throw"} :
          QuickReturns(i, outcome)
    \/ \E i \in 0..(MaxSchedFootnotes - 1) : QuickRunTimesOut(i)

SpecSched == InitSched /\ [][NextSched]_vars

\* ================================================================== claims
Range(seq) == {seq[k] : k \in DOMAIN seq}
StatusOf(stored) == IF stored = None THEN "none" ELSE stored[1].status
VerificationsOf(stored) == IF stored = None THEN {} ELSE Range(stored[1].verifications)

\* C1: when verifyAllFootnotes resolves, its array holds exactly N verifications,
\* exactly one for each input footnote id, whatever the order in which the runs
\* completed.
C1_OnePerFootnote ==
    resolved =>
        /\ Len(output) = N
        /\ \A f \in 1..N :
              Cardinality({k \in 1..Len(output) :
                              output[k].footnoteId = footnotes[f].id}) = 1

\* The second footnote completed first (its snapshot alone reached the blob)
\* and verifyAllFootnotes has resolved.
C1_Witness ==
    /\ resolved
    /\ N = 2
    /\ blobStored # None
    /\ StatusOf(blobStored) = "processing"
    /\ \E v \in VerificationsOf(blobStored) : v.footnoteId = FootnoteAt(1).id
    /\ Cardinality(VerificationsOf(blobStored)) = 1

\* C2: the array verifyAllFootnotes resolves with is in document order: the
\* sorted list is the input in ascending order ?? index, and the verification at
\* position k belongs to the k-th footnote of the sorted list.
C2_DocumentOrder ==
    resolved =>
        /\ Len(sortedFootnotes) = N
        /\ \A a, b \in 1..N :
              a < b => OrderKey(sortedFootnotes[a]) <= OrderKey(sortedFootnotes[b])
        /\ Range(sortedFootnotes) = Range(footnotes)
        /\ Len(output) = N
        /\ \A k \in 1..N : output[k].footnoteId = sortedFootnotes[k].id

\* Resolved after the second footnote completed first: the progress call of its
\* snapshot is the latest one started and the full snapshot waits in the chain.
C2_Witness ==
    /\ resolved
    /\ N = 2
    /\ Len(lastProgress) = 1
    /\ lastProgress[1].footnoteId = FootnoteAt(1).id
    /\ chainQueue # <<>>

\* C3: a document with zero footnotes (model credential present) launches no
\* claim run and reaches the status complete with an empty verifications array:
\* as long as complete is not written, processing can still take a step.
C3_ZeroFootnotesComplete ==
    (N = 0 /\ hasGeminiKey) =>
        /\ nextIndex = 0
        /\ \/ /\ blobStored = Some([status |-> "complete", verifications |-> <<>>,
                                     error |-> None])
              /\ actorStored = Some([status |-> "complete", verifications |-> <<>>,
                                      error |-> None])
           \/ ENABLED Next

\* C4: the snapshots applied to the results blob and to the progress actor are
\* monotonic: the set of verifications never shrinks from one write to the next,
\* and no processing snapshot is written once complete has been written.
C4_MonotonicSnapshots ==
    [][/\ VerificationsOf(blobStored) \subseteq VerificationsOf(blobStored')
       /\ VerificationsOf(actorStored) \subseteq VerificationsOf(actorStored')
       /\ StatusOf(blobStored) = "complete" => StatusOf(blobStored') # "processing"
       /\ StatusOf(actorStored) = "complete" => StatusOf(actorStored') # "processing"
      ]_vars

\* C5: onProgress is invoked once per claim completion (started or waiting in the
\* chain), at most one invocation is in flight, the k-th invocation carries the
\* snapshot taken at the k-th completion, and each invocation's snapshot
\* contains every verification of the one before.
C5_ProgressSerialized ==
    /\ [](/\ Cardinality(ProgressInFlight(inflight)) <= 1
          /\ pdPc \in {"verifying", "final", "done"} =>
                progressCalls + Len(chainQueue) = Cardinality({i \in Pos : results[i] # None})
          /\ Len(lastProgress) = progressCalls
          /\ \A k \in 1..Len(chainQueue) :
                Len(chainQueue[k]) = progressCalls + k)
    /\ [][progressCalls' # progressCalls =>
            /\ progressCalls' = progressCalls + 1
            /\ {inflight'[k] : k \in ProgressInFlight(inflight')} = {Write("progress", "processing", lastProgress')}
            /\ {inflight[k] : k \in ProgressInFlight(inflight)} \cap {inflight'[k] : k \in ProgressInFlight(inflight')} = {}
            /\ Range(lastProgress) \subseteq Range(lastProgress')
         ]_vars

\* One invocation is in flight while a later snapshot waits behind it.
C5_Witness ==
    /\ ProgressInFlight(inflight) # {}
    /\ chainQueue # <<>>
    /\ progressCalls = 1


\* C6: when the primary run of footnote i timed out and Quick Verify succeeded,
\* the slot of i holds the Quick Verify result, and the other footnotes are
\* unaffected: as long as no primary run has returned, every web_search of another
\* footnote's run is served with the search key, as it is when nothing times out.
C6_FallbackOnlyThatFootnote ==
    /\ \A i \in Pos :
          iife[i] = "done_quick" =>
              results[i] = Some(QuickVerification(FootnoteAt(i).id))
    /\ (\A r \in Pos : vf[r] # "returned") =>
          \A j \in Pos :
              ~TimedOut(j) =>
                  \A k \in DOMAIN trace[j] :
                      trace[j][k].tool = "web_search" => trace[j][k].key = KeyOrNull

\* Without a timeout the second half of C6 holds: the module-level key is
\* cleared by a returning primary run or by a Quick Verify pass only.
C6_NoTimeoutBaseline ==
    (TimeoutsFired = 0 /\ \A r \in Pos : vf[r] # "returned") =>
        \A j \in Pos : \A k \in DOMAIN trace[j] :
                      trace[j][k].tool = "web_search" => trace[j][k].key = KeyOrNull

\* C7: when the primary run timed out and the quick pass threw or timed out,
\* the footnote's result is the placeholder (source_unavailable, confidence 0,
\* sourceAccessed false, the failure reason in the explanation), and the failure
\* stays inside verifyAllFootnotes: it resolves with that placeholder and the
\* document is not marked failed.
C7_PlaceholderOnFallbackFailure ==
    \A i \in Pos :
        iife[i] \in {"done_quick_threw", "done_quick_timeout"} =>
            LET reason == IF iife[i] = "done_quick_threw"
                          THEN QuickThrowMessage ELSE QuickTimeoutMessage
            IN /\ results[i] # None
               /\ results[i][1].footnoteId = FootnoteAt(i).id
               /\ results[i][1].verdict = "source_unavailable"
               /\ results[i][1].confidence = 0
               /\ results[i][1].sourceAccessed = FALSE
               /\ results[i][1].explanation = <<"Verification error: ", reason>>
               /\ resolved => output[i + 1] = results[i][1]
               /\ StatusOf(blobStored) # "failed"

\* verifyAllFootnotes resolved after one quick pass timed out.
C7_Witness ==
    /\ resolved
    /\ \E i \in Pos : iife[i] = "done_quick_timeout"

\* C8: every tool call executed for footnote j sees j's own context and the
\* search key given to j's run, never another claim's context and never a
\* cleared (null) context or key.
C8_OwnContext ==
    \A j \in Pos : \A k \in DOMAIN trace[j] :
        IF trace[j][k].tool = "get_earlier_footnotes"
        THEN trace[j][k].context = j
        ELSE trace[j][k].key = KeyOrNull


\* C9: with a context and a requested index k, get_earlier_footnotes returns the
\* text of a footnote exactly when k <= currentIndex + 1, and a message in every
\* other case; stated of both lookups of the repository.
C9_SucceedsIffNotLater ==
    (efPc = "looked" /\ efContext # None /\ efIndex # None) =>
        /\ (efOut[1].kind = "footnotes") <=> efIndex[1] <= efContext[1].currentIndex + 1
        /\ (efInlineOut[1].kind = "footnotes") <=> efIndex[1] <= efContext[1].currentIndex + 1

\* C10: a lookup never returns the text of a footnote located later in the
\* document than the footnote being verified; stated of both lookups.
C10_NeverLaterFootnote ==
    (efPc = "looked" /\ efContext # None) =>
        /\ \A p \in Range(efOut[1].positions) : p <= efContext[1].currentIndex
        /\ \A p \in Range(efInlineOut[1].positions) : p <= efContext[1].currentIndex


\* C11: a get_earlier_footnotes(k) lookup issued while footnote k+1 is verified
\* returns, when it succeeds, a text that holds the claim and the citation of
\* the footnote numbered k exactly as stored; the lookup reads only the footnote
\* list, never the results. Stated of both lookups of the repository.
C11_EarlierTextVerbatim ==
    (/\ efPc = "looked" /\ efContext # None /\ efIndex # None
     /\ efIndex[1] >= 1
     /\ efContext[1].allFootnotes[efContext[1].currentIndex + 1].index = efIndex[1] + 1) =>
        \A out \in {efOut, efInlineOut} :
            out[1].kind = "footnotes" =>
                \A p \in {q \in 1..Len(efContext[1].allFootnotes) :
                            efContext[1].allFootnotes[q].index = efIndex[1]} :
                    LET f == efContext[1].allFootnotes[p]
                        \* s occurs in text as a contiguous run of tokens
                        Contains(text, s) ==
                            \E a \in 1..(Len(text) - Len(s) + 1) :
                                SubSeq(text, a, a + Len(s) - 1) = s
                    IN /\ Contains(out[1].text, ClaimOf(f))
                       /\ Contains(out[1].text, CitationOf(f))
                       /\ out[1].positions = <<p - 1>>

\* footnote 2 of a list with a custom mark in front looks up footnote 1
C11_Witness ==
    /\ efPc = "looked" /\ efContext # None /\ efIndex = Some(1)
    /\ efContext[1].allFootnotes[efContext[1].currentIndex + 1].index = 2
    /\ efContext[1].currentIndex = 2
    /\ efOut[1].kind = "footnotes" /\ efInlineOut[1].kind = "footnotes"
    /\ \E q \in 1..Len(efContext[1].allFootnotes) : efContext[1].allFootnotes[q].index = 1

\* a 429 response with the given header is handled in this step
Got429(header) == \E c \in Callers : SearchResponds(c, "429", header)
\* a 2xx response is handled in this step
GotSuccess == \E c \in Callers : SearchResponds(c, "ok", NoHeader)

\* C12 as stated: on429 without a retry-after header makes backoffMs strictly
\* greater (the base delay when it was zero), and never above the maximum delay.
C12_On429StrictlyIncreases ==
    [][Got429(NoHeader) =>
          /\ backoffMs' > backoffMs
          /\ backoffMs = 0 => backoffMs' = DEFAULT_BASE_DELAY_MS
          /\ backoffMs' <= DEFAULT_MAX_DELAY_MS]_vars

\* C12 amended: on429 without a retry-after header sets backoffMs to the base
\* delay when it was zero, makes it strictly greater when it was positive and
\* below the maximum delay, and leaves it at the maximum delay when it was
\* there; backoffMs never exceeds the maximum delay.
C12_On429IncreasesUpToCap ==
    /\ [](backoffMs <= DEFAULT_MAX_DELAY_MS)
    /\ [][Got429(NoHeader) =>
             /\ backoffMs = 0 => backoffMs' = DEFAULT_BASE_DELAY_MS
             /\ (0 < backoffMs /\ backoffMs < DEFAULT_MAX_DELAY_MS) => backoffMs' > backoffMs
             /\ backoffMs = DEFAULT_MAX_DELAY_MS => backoffMs' = DEFAULT_MAX_DELAY_MS
             /\ backoffMs' <= DEFAULT_MAX_DELAY_MS]_vars

\* two 429 responses without a header have doubled the base delay
C12_Witness ==
    /\ backoffMs = 2 * DEFAULT_BASE_DELAY_MS
    /\ nextAllowedAt = rlNow + backoffMs
    /\ rlResponses = 2

\* n calls of onSuccess in a row
RECURSIVE RepeatOnSuccess(_, _, _)
RepeatOnSuccess(l, now, n) ==
    IF n = 0 THEN l ELSE RepeatOnSuccess(onSuccess(l, now), now, n - 1)

\* C13: onSuccess with backoffMs > 0 sets backoffMs to floor(backoffMs / 2),
\* strictly smaller, and nextAllowedAt to now + the new backoffMs; with
\* backoffMs = 0 it changes neither; repeated onSuccess calls (15 suffice below
\* the maximum delay) bring backoffMs to 0.
C13_OnSuccessHalves ==
    /\ [](RepeatOnSuccess(Limiter, rlNow, 15).backoffMs = 0)
    /\ [][GotSuccess =>
             IF backoffMs > 0
             THEN /\ 2 * backoffMs' <= backoffMs /\ backoffMs < 2 * backoffMs' + 2
                  /\ backoffMs' < backoffMs
                  /\ nextAllowedAt' = rlNow + backoffMs'
             ELSE /\ backoffMs' = 0
                  /\ nextAllowedAt' = nextAllowedAt]_vars

\* a success after a 429 with Retry-After: 5, some time later
C13_Witness ==
    /\ backoffMs = 2500
    /\ nextAllowedAt = rlNow + 2500
    /\ rlNow > 0


\* C14 as stated: on429 with an explicit retry-after delay d sets backoffMs to
\* min(maxDelay, max(backoffMs, d)) and nextAllowedAt to now + backoffMs; after
\* Retry-After: 5 (backoff not above 5000 before) a wait() called next sleeps
\* 5000 ms; a following onSuccess halves the backoff.
C14_RetryAfterSetsBackoff ==
    [][/\ \A h \in {x \in RetryAfterHeaders : parseRetryAfterMs(x, rlNow) # None} :
             Got429(h) =>
                /\ backoffMs' = Min(DEFAULT_MAX_DELAY_MS, Max(backoffMs, parseRetryAfterMs(h, rlNow)[1]))
                /\ nextAllowedAt' = rlNow + backoffMs'
       /\ (Got429(SecondsHeader(5)) /\ backoffMs <= 5000) =>
             SleepMs(rlNow', nextAllowedAt') = 5000
       /\ GotSuccess => backoffMs' = backoffMs \div 2]_vars

\* C14 amended: the same for an explicit retry-after delay d > 0; a header that
\* gives 0 (Retry-After: 0, a negative number, a date in the past) is handled
\* like a missing header.
C14_PositiveRetryAfterSetsBackoff ==
    [][/\ \A h \in {x \in RetryAfterHeaders : parseRetryAfterMs(x, rlNow) # None} :
             Got429(h) =>
                IF parseRetryAfterMs(h, rlNow)[1] > 0
                THEN /\ backoffMs' = Min(DEFAULT_MAX_DELAY_MS, Max(backoffMs, parseRetryAfterMs(h, rlNow)[1]))
                     /\ nextAllowedAt' = rlNow + backoffMs'
                ELSE /\ backoffMs' = on429(Limiter, NoHeader, rlNow).backoffMs
                     /\ nextAllowedAt' = rlNow + backoffMs'
       /\ (Got429(SecondsHeader(5)) /\ backoffMs <= 5000) =>
             SleepMs(rlNow', nextAllowedAt') = 5000
       /\ GotSuccess => backoffMs' = backoffMs \div 2]_vars

\* a caller sleeps 5000 ms in wait() after a 429 with Retry-After: 5
C14_Witness ==
    /\ backoffMs = 5000
    /\ \E c \in Callers :
          /\ rlCall[c].pc = "sleeping"
          /\ rlCall[c].sleepMs = 5000
          /\ rlCall[c].calledAt + 5000 = nextAllowedAt

\* C15: wait() returns to its caller only at a time now >= nextAllowedAt, for
\* every caller of a shared limiter, also when on429 moves nextAllowedAt while
\* the caller sleeps.
C15_WaitReturnsWhenAllowed ==
    \A c \in DOMAIN rlCall :
        rlCall[c].pc = "fetching" => rlCall[c].resumedAt >= rlCall[c].allowedAtResume

\* C16: in every reachable state the PDF byte cache holds at most
\* PDF_CACHE_LIMIT entries (one per key).
C16_CacheWithinLimit ==
    /\ Len(pdfCache) <= PDF_CACHE_LIMIT
    /\ Cardinality(CacheKeys(pdfCache)) = Len(pdfCache)

\* a fourth document has been downloaded into the full cache: the first is gone
C16_Witness ==
    /\ Len(pdfCache) = PDF_CACHE_LIMIT
    /\ pdfCalls = PDF_CACHE_LIMIT + 1
    /\ [k \in DOMAIN pdfCache |-> pdfCache[k].key.rest] = <<2, 3, 4>>
    /\ \E c \in PdfCallers : pdfCall[c].pc = "parsing"

\* C17: a download that completes on a full cache evicts exactly one entry,
\* the one inserted earliest, and puts its own at the end; no download makes
\* the cache smaller; a cache hit leaves the order alone; with any downloads
\* of the same or of different urls in flight.
C17_FifoEviction ==
    [][/\ \A c \in PdfCallers :
             PdfBodyArrives(c) =>
                /\ Len(pdfCache') >= Len(pdfCache)
                /\ Len(pdfCache) = PDF_CACHE_LIMIT =>
                      /\ CacheKeys(pdfCache) \ CacheKeys(pdfCache') \subseteq
                            {pdfCache[1].key}
                      /\ SubSeq(pdfCache', 1, PDF_CACHE_LIMIT - 1) = Tail(pdfCache)
                      /\ pdfCache'[PDF_CACHE_LIMIT].key.rest = pdfCall[c].key
       /\ (\E c \in PdfCallers, url \in PdfUrls : ReadPdfPageCalled(c, url, TRUE)) =>
             pdfCache' = pdfCache]_vars

\* C18: for every tool name, known or unknown, and every outcome of the
\* underlying operation, the promise of the tool dispatcher is pending or
\* resolved to a string, never rejected; an unknown name gives a diagnostic
\* string naming it.
C18_DispatcherNeverRejects ==
    thCall # None =>
        /\ thCall[1].result.settled # "rejected"
        /\ (thCall[1].name = "summarize" /\ thCall[1].pc = "settled") =>
              thCall[1].result = Resolved(<<"Unknown tool: ", "summarize">>)

\* C20: parseVerificationResponse applied to prose around one embedded JSON
\* object returns the Verification that object alone gives, whatever the prose
\* before and behind it; applied to a text with no JSON object it returns
\* source_unavailable with confidence 0. The JSON objects written in the text
\* are given by the positions of their braces.
C20_ProseAroundJsonIgnored ==
    pvOut # None =>
        LET objects == {ij \in (1..Len(pvText)) \X (1..Len(pvText)) :
                           /\ ij[1] < ij[2]
                           /\ JsonParse(SubSeq(pvText, ij[1], ij[2])) # None}
        IN /\ Cardinality(objects) = 1 =>
                 LET ij == CHOOSE o \in objects : TRUE
                 IN pvOut[1] = parseVerificationResponse(SubSeq(pvText, ij[1], ij[2]), pvId)
           /\ objects = {} =>
                 pvOut[1].verdict = "source_unavailable" /\ pvOut[1].confidence = 0

\* C19: verifyFootnote never rejects; when it has returned, its promise is
\* resolved with a Verification of the given footnoteId; and when a model call
\* or a tool threw, or the text is still empty behind the fallback turn, the
\* Verification is source_unavailable with confidence 0, sourceAccessed false
\* and a diagnostic explanation.
C19_VerifyFootnoteNeverRejects ==
    vfRun # None =>
        LET run == vfRun[1]
        IN /\ run.result.settled # "rejected"
           /\ run.pc = "returned" =>
                 /\ run.result.settled = "resolved"
                 /\ run.result.value[1].footnoteId = run.footnoteId
                 /\ (run.exit = "catch" \/ Trim(run.text) = <<>>) =>
                       /\ run.result.value[1].verdict = "source_unavailable"
                       /\ run.result.value[1].confidence = 0
                       /\ run.result.value[1].sourceAccessed = FALSE
                       /\ Len(run.result.value[1].explanation) >= 2
                          \/ run.result.value[1].explanation = <<"Empty response from model">>

\* a tool call rejected in a follow-up round, behind a round that was recorded
C19_Witness ==
    /\ vfRun # None
    /\ vfRun[1].pc = "returned"
    /\ vfRun[1].exit = "catch"
    /\ vfRun[1].iterations >= 1
    /\ vfRun[1].trace # <<>>
    /\ vfRun[1].result.settled = "resolved"

\* the members of the answer that was parsed, None when JSON.parse had nothing
PvParsed ==
    IF JsonMatch(pvText) = None THEN None ELSE JsonParse(JsonMatch(pvText)[1])

\* C21 as stated: parsing keeps the overall verdict and every per-source
\* verdict that is one of supports, partially_supports, does_not_support,
\* contradicts, source_unavailable, not_applicable, and replaces every other
\* value, a missing one included, by source_unavailable.
C21_SixVerdictEnumeration ==
    (pvOut # None /\ PvParsed # None) =>
        LET six == {"supports", "partially_supports", "does_not_support", "contradicts",
                    "source_unavailable", "not_applicable"}
            given == IF Member(PvParsed[1], "overall_verdict") # None
                     THEN Member(PvParsed[1], "overall_verdict")[1]
                     ELSE IF Member(PvParsed[1], "verdict") # None
                     THEN Member(PvParsed[1], "verdict")[1] ELSE ""
        IN pvOut[1].verdict = IF given \in six THEN given ELSE "source_unavailable"

\* C21, amended: the enumeration parsing keeps is supports, partially_supports,
\* does_not_support, contradicts, source_unavailable; every other overall or
\* per-source verdict, not_applicable and a missing one included, becomes
\* source_unavailable, and no Verification carries a verdict outside the five.
C21_FiveVerdictEnumeration ==
    pvOut # None =>
        LET five == {"supports", "partially_supports", "does_not_support", "contradicts",
                     "source_unavailable"}
        IN /\ pvOut[1].verdict \in five
           /\ PvParsed # None =>
                LET given == IF Member(PvParsed[1], "overall_verdict") # None
                             THEN Member(PvParsed[1], "overall_verdict")[1]
                             ELSE IF Member(PvParsed[1], "verdict") # None
                             THEN Member(PvParsed[1], "verdict")[1] ELSE ""
                    listed == IF Member(PvParsed[1], "sources") = None THEN <<>>
                              ELSE SourcesOf(Member(PvParsed[1], "sources")[1])
                IN /\ pvOut[1].verdict = IF given \in five THEN given
                                         ELSE "source_unavailable"
                   /\ \A i \in 1..Len(listed) :
                        pvOut[1].sources[1][i].verdict =
                            IF listed[i].verdict \in five THEN listed[i].verdict
                            ELSE "source_unavailable"

\* an answer with an unknown overall verdict and two listed sources, one
\* verdict kept and one missing
C21_Witness ==
    /\ pvOut # None
    /\ pvText = <<Open, Field("overall_verdict", "maybe"), Field("sources", "unread,read"),
                  Close>>
    /\ pvOut[1].verdict = "source_unavailable"
    /\ pvOut[1].sources[1][2].verdict = "partially_supports"

\* C22: every Verification parsed from an answer in which no source was
\* accessed (sourceAccessed false) has the verdict source_unavailable.
C22_UnaccessedIsUnavailable ==
    pvOut # None =>
        (~pvOut[1].sourceAccessed => pvOut[1].verdict = "source_unavailable")

\* C23: when GEMINI_API_KEY is missing, the only snapshot processDocument
\* writes has the status failed, no verifications and an error message; no
\* snapshot with the status processing is written or stored, and
\* verifyAllFootnotes is never called: no footnote is launched, no run exists.
C23_MissingCredentialFails ==
    ~hasGeminiKey =>
        /\ \A k \in DOMAIN inflight :
              /\ inflight[k].status = "failed"
              /\ inflight[k].verifications = <<>>
              /\ inflight[k].error # None
        /\ \A stored \in {blobStored, actorStored} :
              stored # None =>
                /\ stored[1].status = "failed"
                /\ stored[1].verifications = <<>>
                /\ stored[1].error # None
        /\ nextIndex = 0
        /\ active = 0
        /\ sortedFootnotes = <<>>
        /\ \A i \in Pos : iife[i] = "idle" /\ vf[i] = "none" /\ qv[i] = "none"
        /\ pdPc = "done" => blobStored # None /\ actorStored # None

\* a document with footnotes, no credential, processing finished
C23_Witness ==
    /\ ~hasGeminiKey
    /\ N >= 1
    /\ pdPc = "done"
    /\ StatusOf(blobStored) = "failed"
    /\ StatusOf(actorStored) = "failed"

\* C24: with the model credential present, no snapshot with the status failed is
\* written or stored, and once processing has come to rest (no step is left) the
\* stored document has the status complete and holds exactly one verification
\* per footnote.
C24_AlwaysCompletes ==
    hasGeminiKey =>
        /\ \A k \in DOMAIN inflight : inflight[k].status # "failed"
        /\ StatusOf(blobStored) # "failed"
        /\ ~ENABLED Next =>
              /\ StatusOf(blobStored) = "complete"
              /\ Len(blobStored[1].verifications) = N
              /\ \A i \in Pos :
                    Cardinality({k \in 1..N :
                        blobStored[1].verifications[k].footnoteId = FootnoteAt(i).id}) = 1

\* C25: before any set both stores answer get with null; after any sequence of
\* sets each store answers get with the snapshot of the most recent set: every
\* field is the one of that set's payload (verifications default to the empty
\* list, an error is carried only when that payload had one), updatedAt is the
\* supplied one or, when absent, the current time, and what set returned is
\* what get then reads. (Whether an absent error reads as undefined or as null
\* is the subject of C28.)
C25_GetReturnsLastSet ==
    LET Same(got, payload, returned) ==
            /\ got # None
            /\ got[1].status = payload.status
            /\ got[1].footnoteCount = payload.footnoteCount
            /\ got[1].verifications = (IF payload.verifications # None
                                       THEN payload.verifications[1] ELSE <<>>)
            /\ got[1].updatedAt = (IF payload.updatedAt # None
                                   THEN payload.updatedAt[1] ELSE "t1")
            /\ IF payload.error # None
               THEN got[1].error = [type |-> "string", text |-> payload.error[1]]
               ELSE got[1].error.type # "string"
            /\ [got[1] EXCEPT !.error = 0] = [returned EXCEPT !.error = 0]
            /\ returned.error.type = "string" => got[1].error = returned.error
            /\ returned.error.type # "string" => got[1].error.type # "string"
    IN IF pa.sets = 0
       THEN pa.kv = None /\ SqlGet(pa.sql) = None
       ELSE /\ Same(pa.kv, pa.payload[1], pa.returned[1].kv)
            /\ Same(SqlGet(pa.sql), pa.payload[1], pa.returned[1].sql)

\* a second set without error and without updatedAt has been stored
C25_Witness ==
    /\ pa.sets = 2
    /\ pa.payload[1].error = None
    /\ pa.payload[1].updatedAt = None
    /\ pa.kv[1].updatedAt = "t1"
    /\ SqlGet(pa.sql)[1].updatedAt = "t1"

\* C26: an attach that answers 101 has sent the new subscriber exactly the
\* snapshot the store held at that moment, as a progress message, within the
\* handler (no set in between); with nothing stored it has sent nothing.
C26_AttachSendsCurrent ==
    [][(pa'.attached # pa.attached /\ pa'.response = "101") =>
          LET ws == CHOOSE w \in pa'.attached : w \notin pa.attached
              got == IF pa.useSql THEN SqlGet(pa.sql) ELSE pa.kv
          IN /\ ws \in pa'.sessions
             /\ pa'.sets = pa.sets
             /\ pa'.inbox[ws] = IF got = None
                                THEN [count |-> 0, last |-> None]
                                ELSE [count |-> 1,
                                      last |-> Some([type |-> "progress",
                                                     data |-> got[1]])]
      ]_vars

\* the second subscriber attached after a set and holds the stored snapshot
C26_Witness ==
    /\ pa.response = "101"
    /\ pa.sets >= 1
    /\ Cardinality(pa.attached) = 2
    /\ 2 \in pa.sessions
    /\ pa.inbox[2].count = 1
    /\ pa.inbox[2].last[1].data = (IF pa.useSql THEN SqlGet(pa.sql) ELSE pa.kv)[1]

\* C27: a set through the actor sends the snapshot it returned to every session
\* whose send does not throw, deletes exactly the sessions whose send threw, and
\* leaves the new snapshot in the store.
C27_BroadcastToLive ==
    [][pa'.sets # pa.sets =>
          LET snapshot == IF pa.useSql THEN pa'.returned[1].sql ELSE pa'.returned[1].kv
              got == IF pa.useSql THEN SqlGet(pa'.sql) ELSE pa'.kv
          IN /\ pa'.sessions = pa.sessions \ pa'.threw
             /\ \A ws \in pa.sessions \ pa'.threw :
                   pa'.inbox[ws] = [count |-> pa.inbox[ws].count + 1,
                                    last |-> Some([type |-> "progress",
                                                   data |-> snapshot])]
             /\ got # None
             /\ [got[1] EXCEPT !.error = 0] = [snapshot EXCEPT !.error = 0]
             /\ (got[1].error.type = "string" \/ snapshot.error.type = "string")
                   => got[1].error = snapshot.error
      ]_vars

\* the send to the first subscriber threw, the second one received the snapshot
C27_Witness ==
    /\ pa.response = "204"
    /\ pa.threw = {1}
    /\ pa.sessions = {2}
    /\ pa.inbox[2].count >= 1
    /\ pa.inbox[2].last[1].data = (IF pa.useSql THEN pa.returned[1].sql
                                   ELSE pa.returned[1].kv)

\* C28: after the same sets, get of the key-value store and get of the SQL
\* store return the same snapshot, an absent error included.
C28_StoresEquivalent == pa.kv = SqlGet(pa.sql)

\* C29: a verifyFootnote run makes at most maxIterations follow-up chat turns
\* after the first one and at most one fallback call behind them, at most
\* maxIterations + 2 model calls in all, whatever the model answers; and it
\* terminates: every step of the run takes it forward in a bounded measure
\* (model calls made, tool round entered, returned), so no run goes on for ever.
C29_BoundedModelCalls ==
    /\ [](vfRun # None =>
            /\ vfRun[1].iterations <= maxIterations
            /\ vfRun[1].modelCalls <= maxIterations + 2
            /\ vfRun[1].modelCalls <= 6
            /\ vfRun[1].pc \in {"first", "tools", "fallback_tools"} =>
                  vfRun[1].modelCalls = vfRun[1].iterations + 1
            /\ vfRun[1].pc = "followup" =>
                  /\ vfRun[1].modelCalls = vfRun[1].iterations + 2
                  /\ vfRun[1].iterations < maxIterations
            /\ vfRun[1].pc = "fallback" =>
                  vfRun[1].modelCalls = vfRun[1].iterations + 2)
    /\ [][(vfRun # None /\ vfRun' # vfRun) =>
             LET Measure(run) ==
                     2 * run.modelCalls
                     + (IF run.pc \in {"tools", "fallback_tools"} THEN 1 ELSE 0)
                     + (IF run.pc = "returned" THEN 2 * (maxIterations + 2) + 1 ELSE 0)
             IN /\ Measure(vfRun'[1]) > Measure(vfRun[1])
                /\ Measure(vfRun'[1]) <= 4 * (maxIterations + 2) + 1]_vars

\* the longest run: tool calls asked for on every turn, then the fallback
C29_Witness ==
    /\ vfRun # None
    /\ vfRun[1].pc = "returned"
    /\ vfRun[1].iterations = maxIterations
    /\ vfRun[1].modelCalls = maxIterations + 2
    /\ vfRun[1].exit = "parsed"

\* C30: the TOOL OUTPUTS of the fallback prompt are the outputs of every tool
\* call of the run, one for each record of the trace and in its order.
C30_FallbackHoldsEveryOutput ==
    (vfRun # None /\ vfRun[1].toolOutputs # None) =>
        vfRun[1].toolOutputs[1] =
            [k \in 1..Len(vfRun[1].trace) |-> vfRun[1].trace[k].tool]

\* C31: in verifyAllFootnotes the counter active stays within 0..5 and counts
\* the wrappers that have not finished; every footnote is launched exactly once
\* (a wrapper leaves "idle" once and never comes back to it or to its start),
\* launches go in ascending position (the launched footnotes are the first
\* nextIndex ones), and the footnote at position 5 or later (number 6 or later)
\* is launched only after enough earlier footnotes have obtained their results.
C31_PoolOfFive ==
    /\ [](/\ active \in 0..concurrencyLimit
          /\ active = Cardinality({i \in Pos : iife[i] \in {"primary", "quick"}})
          /\ nextIndex \in 0..N
          /\ \A i \in Pos : iife[i] # "idle" <=> i < nextIndex
          /\ \A i \in Pos : (i >= concurrencyLimit /\ iife[i] # "idle") =>
                /\ \E j \in 0..(i - 1) : results[j] # None
                /\ Cardinality({j \in 0..(i - 1) : results[j] # None}) >= i + 1 - concurrencyLimit
          /\ resolved => \A i \in Pos : iife[i] \notin {"idle", "primary", "quick"})
    /\ [][\A i \in Pos :
            /\ iife[i] # "idle" => iife'[i] # "idle"
            /\ iife[i] \notin {"idle", "primary"} => iife'[i] # "primary"
            /\ (iife[i] = "idle" /\ iife'[i] # "idle") =>
                  /\ iife'[i] = "primary"
                  /\ \A j \in Pos : j < i => iife'[j] # "idle"]_vars

\* Six footnotes: the sixth has been launched while four runs of the first
\* round are still going, the pool is full.
C31_Witness ==
    /\ N = 6
    /\ iife[5] = "primary"
    /\ active = concurrencyLimit
    /\ Cardinality({i \in Pos : results[i] # None}) = 1

\* C32: at any time at most 5 verifyFootnote executions of one document have
\* started and not yet returned, the primary runs abandoned after their timeout
\* included.
C32_AtMostFiveAgentLoops ==
    Cardinality({i \in Pos : vf[i] = "running"}) <= concurrencyLimit

\* C33: the result slot of a footnote is assigned once and never reassigned;
\* the Verification of a primary run that completes after its timeout is
\* dropped: the slot of a timed-out footnote, and every snapshot handed to
\* onProgress, written or stored, holds the fallback or the placeholder for it,
\* never the primary answer; and verifyFootnote is started once per footnote.
C33_LatePrimaryDiscarded ==
    /\ [](LET Primary(v) == v.trace # None
              Late(snapshot) ==
                  \E k \in DOMAIN snapshot, i \in Pos :
                      /\ TimedOut(i)
                      /\ snapshot[k].footnoteId = FootnoteAt(i).id
                      /\ Primary(snapshot[k])
          IN /\ \A i \in Pos : (TimedOut(i) /\ results[i] # None) => ~Primary(results[i][1])
             /\ \A i \in Pos : iife[i] \in {"done_primary", "done_quick", "done_quick_threw",
                                            "done_quick_timeout"} <=> results[i] # None
             /\ \A k \in DOMAIN inflight : ~Late(inflight[k].verifications)
             /\ \A k \in DOMAIN chainQueue : ~Late(chainQueue[k])
             /\ ~Late(lastProgress)
             /\ ~Late(output)
             /\ blobStored # None => ~Late(blobStored[1].verifications)
             /\ actorStored # None => ~Late(actorStored[1].verifications))
    /\ [][\A i \in Pos :
            /\ results[i] # None => results'[i] = results[i]
            /\ vf[i] # "none" => vf'[i] # "none"
            /\ vf[i] = "returned" => vf'[i] = "returned"]_vars

\* The primary run of a footnote returned after its timeout, when the quick
\* pass had already filled the slot.
C33_Witness ==
    \E i \in Pos :
        /\ iife[i] = "done_quick"
        /\ vf[i] = "returned"
        /\ results[i] = Some(QuickVerification(FootnoteAt(i).id))
        /\ blobStored # None
        /\ \E k \in DOMAIN blobStored[1].verifications :
              blobStored[1].verifications[k] = QuickVerification(FootnoteAt(i).id)

\* C34: with timers that fire, verifyAllFootnotes, once called, eventually
\* resolves for every input list, whatever the model calls, the tool calls and
\* the onProgress callback do (unless the number of timers this model lets fire
\* is used up while a primary run is still awaited); it resolves only when
\* every footnote has a result; and a wrapper without a result is always under
\* a running timer: that of the primary run, then that of the quick pass.
C34_AlwaysResolves ==
    /\ [](resolved => \A i \in Pos : results[i] # None)
    /\ [](pdPc \in {"verifying", "final", "done"} =>
             \A i \in Pos : results[i] = None => iife[i] \in {"idle", "primary", "quick"})
    /\ [][\A i \in Pos : iife[i] = "quick" => iife'[i] # "primary"]_vars
    /\ (pdPc = "verifying") ~>
          (resolved \/ (TimeoutsFired >= MaxTimeouts /\ \E i \in Pos : iife[i] = "primary"))

\* The same progress for the lists that hold at least one footnote.
C34_ResolvesWhenNonEmpty ==
    (pdPc = "verifying" /\ N > 0) ~>
          (resolved \/ (TimeoutsFired >= MaxTimeouts /\ \E i \in Pos : iife[i] = "primary"))

\* C35: every Verification parseVerificationResponse returns (parsed answer or
\* parse failure) has a confidence within [0,1] (0..100 in hundredths),
\* whatever confidence the model wrote, and a missing or non-numeric confidence
\* of a parsed answer becomes 0.5.
C35_ConfidenceInUnitInterval ==
    pvOut # None =>
        /\ pvOut[1].confidence \in 0..100
        /\ IF PvParsed = None THEN pvOut[1].confidence = 0
           ELSE Member(PvParsed[1], "confidence") \in {None, Some("high")} =>
                    pvOut[1].confidence = 50

\* C36 as stated: for every parsed model answer, sourceAccessed is true exactly
\* when at least one listed source is marked accessed, and sourceUrl is the URL
\* of the first listed source that is marked accessed.
C36_FirstAccessedSource ==
    (pvOut # None /\ Trim(pvText) # <<>> /\ PvParsed # None) =>
        LET sources == Member(PvParsed[1], "sources")
            listed == IF sources = None THEN <<>> ELSE SourcesOf(sources[1])
            accessed == {i \in 1..Len(listed) : listed[i].accessed = "true"}
            first == CHOOSE i \in accessed : \A j \in accessed : i <= j
        IN /\ pvOut[1].sourceAccessed <=> accessed # {}
           /\ pvOut[1].sourceUrl = IF accessed = {} \/ listed[first].url = ""
                                   THEN None ELSE Some(listed[first].url)

\* C36: for every parsed model answer, sourceAccessed is true exactly when at
\* least one listed source is marked accessed or the answer's own
\* source_accessed member is true; sourceUrl is the URL of the first listed
\* source that is marked accessed and carries a URL, and where there is none,
\* the answer's own source_url member, or nothing.
C36_FirstAccessedSourceWithUrl ==
    (pvOut # None /\ Trim(pvText) # <<>> /\ PvParsed # None) =>
        LET sources == Member(PvParsed[1], "sources")
            listed == IF sources = None THEN <<>> ELSE SourcesOf(sources[1])
            accessed == {i \in 1..Len(listed) : listed[i].accessed = "true"}
            usable == {i \in accessed : listed[i].url # ""}
            first == CHOOSE i \in usable : \A j \in usable : i <= j
        IN /\ pvOut[1].sourceAccessed <=>
                 (accessed # {} \/ Member(PvParsed[1], "source_accessed") = Some("true"))
           /\ pvOut[1].sourceUrl = IF usable # {} THEN Some(listed[first].url)
                                   ELSE Member(PvParsed[1], "source_url")

\* An answer listing an accessed source without a URL before an accessed one
\* with a URL has been parsed: the second source's URL is the primary URL.
C36_Witness ==
    /\ pvOut # None
    /\ PvParsed # None
    /\ Member(PvParsed[1], "sources") = Some("read-no-url,read")
    /\ pvOut[1].sourceAccessed
    /\ pvOut[1].sourceUrl = Some("u2")

\* C37: a web_search call with an API key sends its request only after the
\* rate limiter's wait (at once when the limiter allows it, after the sleep
\* otherwise); the limiter changes only when the response of a web_search
\* arrives, once per call: a 429 response sets it as on429 does for the
\* response's retry-after header, a 2xx response as onSuccess does, and every
\* other outcome (another status, a network error, a timeout, a missing API
\* key) leaves backoffMs and nextAllowedAt as they are; the call always
\* resolves to a string.
C37_SearchFeedsLimiter ==
    /\ []((thCall # None /\ thCall[1].name = "web_search") =>
             /\ thCall[1].result.settled # "rejected"
             /\ thCall[1].pc = "settled" <=> thCall[1].result.settled = "resolved")
    /\ [][LET search == thCall # None /\ thCall[1].name = "web_search"
              after429(h) ==
                  IF h = NoHeader
                  THEN IF backoffMs > 0 THEN Min(DEFAULT_MAX_DELAY_MS, 2 * backoffMs)
                       ELSE DEFAULT_BASE_DELAY_MS
                  ELSE Min(DEFAULT_MAX_DELAY_MS, Max(backoffMs, h.n * 1000))
          IN /\ \A h \in {NoHeader, SecondsHeader(5)} :
                   (search /\ ToolFetchSettles("429", h)) =>
                       /\ backoffMs' = after429(h)
                       /\ nextAllowedAt' = rlNow + after429(h)
             /\ \A outcome \in {"ok", "wrong_type"} :
                   (search /\ ToolFetchSettles(outcome, NoHeader)) =>
                       IF backoffMs <= 0 THEN UNCHANGED <<backoffMs, nextAllowedAt>>
                       ELSE /\ backoffMs' = backoffMs \div 2
                            /\ nextAllowedAt' = rlNow + (backoffMs \div 2)
             /\ <<backoffMs, nextAllowedAt>>' # <<backoffMs, nextAllowedAt>> =>
                   /\ search
                   /\ thCall[1].pc = "fetching"
                   /\ \/ thCall'[1].pc = "body"
                      \/ thCall'[1].result =
                            Resolved(<<"Search failed with status ", "429",
                                       ". Try a different search query.">>)
             /\ (thCall' # thCall /\ thCall'[1].name = "web_search"
                   /\ thCall'[1].pc = "fetching") =>
                   IF search /\ thCall[1].pc = "sleeping"
                   THEN rlNow >= thCall[1].key
                   ELSE rlNow >= nextAllowedAt
             /\ (thCall' # thCall /\ thCall'[1].name = "web_search"
                   /\ thCall'[1].pc = "sleeping") =>
                   /\ rlNow < nextAllowedAt
                   /\ thCall'[1].key = nextAllowedAt
         ]_vars

\* A later web_search got a 429 response carrying retry-after: 5 and the
\* backoff stands at 5000 ms, the limiter closed until then.
C37_Witness ==
    /\ thCall # None
    /\ thCall[1].name = "web_search"
    /\ thCall[1].pc = "settled"
    /\ thRuns >= 2
    /\ nextAllowedAt > rlNow
    /\ thCall[1].result = Resolved(<<"Search failed with status ", "429",
                                     ". Try a different search query.">>)
    /\ backoffMs = 5000

\* C38: read_pdf_page with a page number below 1 or not finite resolves to the
\* error message, sends no request and leaves the PDF cache as it is; a
\* download that ends in a non-2xx status or in another content type than PDF
\* inserts nothing into the cache; a request for a cached URL sends no request
\* and leaves the cache as it is. (The cache changes only when the body of a
\* PDF response has arrived.)
C38_PdfFrame ==
    [][LET reader == thCall # None /\ thCall[1].name = "read_pdf_page"
           cached(url) ==
               \E k \in DOMAIN pdfCache :
                   pdfCache[k].key = [scheme |-> "https://", rest |-> url.rest]
       IN /\ \A args \in [url : {None} \cup {Some(u) : u \in {v \in PdfUrls : v.rest = 1}},
                          pageValid : BOOLEAN, index : {None, Some(1)}],
                apiKey \in {Null, LinkupKey} :
                ToolCalled("read_pdf_page", args, apiKey) =>
                   /\ pdfCache' = pdfCache
                   /\ ~args.pageValid =>
                         thCall' = Settled("read_pdf_page",
                            Resolved(<<"Invalid page number. Provide a 1-based page number.">>))
                   /\ (args.pageValid /\ args.url # None) =>
                         IF cached(args.url[1]) THEN thCall'[1].pc = "parsing"
                         ELSE thCall'[1].pc = "fetching"
          /\ \A outcome \in {"401", "404", "429", "500", "wrong_type"} :
                (reader /\ ToolFetchSettles(outcome, NoHeader)) =>
                   /\ pdfCache' = pdfCache
                   /\ thCall'[1].pc = "settled"
                   /\ thCall'[1].result.settled = "resolved"
          /\ (thCall' # None /\ thCall'[1].name = "read_pdf_page"
                /\ thCall'[1].pc \in {"fetching", "body"}) =>
                \/ reader /\ thCall[1].pc \in {"fetching", "body"}
                \/ ~\E k \in DOMAIN pdfCache : pdfCache[k].key.rest = thCall'[1].key
          /\ pdfCache' # pdfCache => (reader /\ thCall[1].pc = "body")
      ]_vars

\* With a document in the cache, a call with an invalid page number has
\* returned its message.
C38_Witness ==
    /\ thCall = Settled("read_pdf_page",
                        Resolved(<<"Invalid page number. Provide a 1-based page number.">>))
    /\ pdfCache # <<>>

\* C39: on every path on which verifyFootnote returns, the returned trace is
\* the run's trace, and it holds one record for every tool invocation of the
\* run: each round of tool calls (the round behind the iteration cap included)
\* adds one record per call it invoked, in the order of the calls, and no other
\* step adds, removes or rewrites a record.
C39_TraceHoldsEveryInvocation ==
    [][(vfRun # None /\ vfRun' # vfRun) =>
          LET run == vfRun[1]
              after == vfRun'[1]
              calls == run.response.functionCalls
          IN /\ Len(after.trace) >= Len(run.trace)
             /\ SubSeq(after.trace, 1, Len(run.trace)) = run.trace
             /\ IF run.pc \in {"tools", "fallback_tools"}
                THEN after.trace = run.trace \o [k \in 1..Len(calls) |-> [tool |-> calls[k]]]
                ELSE after.trace = run.trace
             /\ after.pc = "returned" => after.result.value[1].trace = Some(after.trace)
      ]_vars

\* C40: every live subscriber of the progress actor receives the snapshots in
\* the order in which they were persisted, also when it attaches while a POST is
\* awaiting its body or when two POSTs overlap: each delivery carries the
\* snapshot the store holds when it is made, and the store only moves on from
\* one set to the next. At every moment between two handlers, and so once all
\* sets have finished, the last snapshot a live subscriber received is the one
\* get returns. (An absent error is compared as absent; how each store writes
\* it is the subject of C28.)
C40_DeliveredInPersistedOrder ==
    /\ [](LET got == IF pa.useSql THEN SqlGet(pa.sql) ELSE pa.kv
              Same(a, b) ==
                  /\ [a EXCEPT !.error = 0] = [b EXCEPT !.error = 0]
                  /\ (a.error.type = "string" \/ b.error.type = "string")
                        => a.error = b.error
          IN \A ws \in pa.sessions :
                pa.inbox[ws].last # None =>
                   /\ got # None
                   /\ Same(pa.inbox[ws].last[1].data, got[1]))
    /\ [][LET got == IF pa.useSql THEN SqlGet(pa'.sql) ELSE pa'.kv
              Same(a, b) ==
                  /\ [a EXCEPT !.error = 0] = [b EXCEPT !.error = 0]
                  /\ (a.error.type = "string" \/ b.error.type = "string")
                        => a.error = b.error
          IN /\ pa'.sets \in {pa.sets, pa.sets + 1}
             /\ \A ws \in 1..MaxSockets :
                   pa'.inbox[ws].count > pa.inbox[ws].count =>
                      /\ pa'.inbox[ws].count = pa.inbox[ws].count + 1
                      /\ got # None
                      /\ Same(pa'.inbox[ws].last[1].data, got[1])
             /\ \A ws \in pa.sessions \cap pa'.sessions :
                   pa'.sets # pa.sets =>
                      pa'.inbox[ws].count = pa.inbox[ws].count + 1
      ]_vars

\* a subscriber attached and received the stored snapshot while the request of
\* another set was still awaiting its body
C40_Witness ==
    /\ pa.response = "101"
    /\ pa.sets = 1
    /\ pa.pending # {}
    /\ \E ws \in pa.sessions : pa.inbox[ws].count = 1

====
